---- MODULE Spec2Model ----
(***************************************************************************)
(* GPU runtime tessellation: the resolution calculator, the LOD evaluator  *)
(* of UGPUTessellationComponent and the patch partitioner of               *)
(* FGPUTessellationMeshBuilder, as state machines.                         *)
(*                                                                         *)
(* Numbers.  A float tessellation factor is a pair <<w, h>> standing for   *)
(* w + h/2 (h in {0,1}), so that FMath::RoundToInt (floor(f + 0.5)) is     *)
(* w + h.  int32 values are integers kept inside [-2^31, 2^31 - 1].        *)
(* Lengths and positions are integers in units of 1000 world units.  The   *)
(* component sits at the world origin, unrotated, with a uniform scale.    *)
(***************************************************************************)
EXTENDS Integers, Sequences, FiniteSets, TLC

VARIABLES
    calcArg,        \* the float tessellation factor under test, <<w, h>>
    calcProduct,    \* the int32 value of RoundToInt(TessellationFactor) * 4 in that call
    calcResult,     \* FIntPoint returned by that call, <<X, Y>>; <<0, 0>> before any call
    GPUBuffers,     \* FGPUTessellationBuffers of the single-mesh path
    TessellationSettings,   \* UGPUTessellationComponent::TessellationSettings
    CurrentLODLevel,        \* float, in units of 1/LODScale
    LastAppliedTessFactor,  \* int32
    bInitialized,           \* the function-local static of TickComponent
    MaxScale,               \* the component scale, the same along the three axes
    CameraPosition,         \* the view location of the player camera, <<x, y, z>>
    LastCameraPosition,     \* UGPUTessellationComponent::LastCameraPosition
    LastPatchCountX,        \* UGPUTessellationComponent::LastPatchCountX
    LastPatchCountY,        \* UGPUTessellationComponent::LastPatchCountY
    PatchBuffers,           \* FGPUTessellationSceneProxy::GPUPatchBuffers
    TargetTessFactor,       \* what the call of CalculateLODFactorScaled under test
                            \* returned; 0 before the call
    bRenderStateDirty,      \* MarkRenderStateDirty was called and the render state
                            \* waits for the end-of-frame update to recreate it
    lastTick,               \* the LOD branch TickComponent last ran to its end with the
                            \* current distance and settings; "none" once they change
    bTickedDistanceBased,   \* this component instance went through the DistanceBased
                            \* case of TickComponent before
    Settings,               \* FGPUTessellationSceneProxy::Settings
    bUsePatchMode,          \* FGPUTessellationSceneProxy::bUsePatchMode
    bMeshValid,             \* FGPUTessellationSceneProxy::bMeshValid
    VertexFactory,          \* FGPUTessellationSceneProxy::VertexFactory
    PatchVertexFactories,   \* FGPUTessellationSceneProxy::PatchVertexFactories
    SceneProxy,             \* UPrimitiveComponent::SceneProxy is not null
    ProxyState,             \* the scene proxy on the rendering thread: "none", "created",
                            \* "inScene" or "destroyed"
    RenderCommands,         \* the render commands enqueued and not yet begun, in order
    RenderCommand,          \* the render command the rendering thread is executing
    GraphBuilder,           \* the passes added to the FRDGBuilder of that command
    MeshBatches,            \* the mesh batches the last GetDynamicMeshElements collected
    ReleaseOrder            \* what the destructor of the scene proxy released, in order

resVars == <<calcArg, calcProduct, calcResult>>

lodVars == <<TessellationSettings, CurrentLODLevel, LastAppliedTessFactor, bInitialized,
             MaxScale, CameraPosition, TargetTessFactor, bRenderStateDirty, lastTick>>

patchVars == <<LastCameraPosition, LastPatchCountX, LastPatchCountY, PatchBuffers>>

renderVars == <<Settings, bUsePatchMode, bMeshValid, VertexFactory, PatchVertexFactories,
                SceneProxy, ProxyState, RenderCommands, RenderCommand, GraphBuilder,
                MeshBatches, ReleaseOrder>>

vars == <<resVars, GPUBuffers, lodVars, patchVars, bTickedDistanceBased, renderVars>>

----------------------------------------------------------------------------
(* Bounds of the model *)

\* largest whole part of a float tessellation factor passed to CalculateResolution
MaxFactorInput == 520

\* largest camera distance passed to CalculateLODFactorScaled
MaxDistanceInput == 102

\* largest number of entries of PatchLevels
MaxPatchEntries == 2

\* CurrentLODLevel is kept to 1/LODScale
LODScale == 2

\* Clamp(DeltaTime * LODTransitionSpeed, 0, 1) is one of 0/InterpDen .. InterpDen/InterpDen
InterpDen == 2

----------------------------------------------------------------------------
(* FMath helpers *)

Max(a, b) == IF a >= b THEN a ELSE b

Min(a, b) == IF a <= b THEN a ELSE b

Abs(a) == IF a < 0 THEN -a ELSE a

Clamp(x, lo, hi) == IF x < lo THEN lo ELSE IF x < hi THEN x ELSE hi

DivideAndRoundUp(a, b) == (a + b - 1) \div b

RoundToInt(f) == f[1] + f[2]

MaxInt32 == (2^30 - 1) + 2^30

MinInt32 == -MaxInt32 - 1

\* r * 4 in two's complement 32-bit arithmetic
Mul4Wrap32(r) ==
    LET low == r % (2^30)
    IN  IF low >= 2^29 THEN (low - 2^30) * 4 ELSE low * 4

Mul4Fits32(r) == r <= MaxInt32 \div 4 /\ r >= -(2^29)

\* The values RoundToInt(TessellationFactor) * 4 can take.  The product is a
\* signed 32-bit multiplication: when it overflows the behaviour is undefined,
\* and the build yields either the wrapped value or a value as if the product
\* had not overflowed (any value beyond the segment clamp acts the same).
SegmentProducts(f) ==
    LET r == RoundToInt(f)
    IN  IF Mul4Fits32(r) THEN {r * 4}
        ELSE {Mul4Wrap32(r), IF r > 0 THEN MaxInt32 ELSE MinInt32}

ZeroVector == <<0, 0, 0>>

\* FVector::DistSquared
DistSquared(a, b) ==
    (a[1] - b[1]) * (a[1] - b[1]) + (a[2] - b[2]) * (a[2] - b[2])
        + (a[3] - b[3]) * (a[3] - b[3])

\* FVector::Dist where it is a whole number (two points on a line parallel to an
\* axis, as in every state in which a LOD evaluator reads it); its whole part elsewhere
VectorDist(a, b) ==
    LET sq == DistSquared(a, b)
        hi == Abs(a[1] - b[1]) + Abs(a[2] - b[2]) + Abs(a[3] - b[3])
    IN  IF sq = hi * hi THEN hi
        ELSE CHOOSE r \in 0 .. hi : r * r <= sq /\ (r + 1) * (r + 1) > sq

----------------------------------------------------------------------------
(* Resolution calculator *)

ThreadGroupSize == 8

MaxResolution == 1024

MaxSegments == MaxResolution - 1

\* variant of the calculator in which the vertex closing the grid is not added
CalculateResolutionNoClosingVertex(p) ==
    LET Desired  == Clamp(Max(1, p), ThreadGroupSize, MaxSegments)
        Segments == Clamp(DivideAndRoundUp(Desired, ThreadGroupSize) * ThreadGroupSize,
                          ThreadGroupSize, MaxSegments)
    IN  <<Min(Segments, MaxResolution), Min(Segments, MaxResolution)>>

\* CalculateResolution from the value p of RoundToInt(TessellationFactor) * 4
CalculateResolutionOfProduct(p) ==
    LET DesiredSegments0 == Max(1, p)
        DesiredSegments  == Clamp(DesiredSegments0, ThreadGroupSize, MaxSegments)
        Segments0        == DivideAndRoundUp(DesiredSegments, ThreadGroupSize) * ThreadGroupSize
        Segments         == Clamp(Segments0, ThreadGroupSize, MaxSegments)
        Resolution       == Min(Segments + 1, MaxResolution)
    IN  <<Resolution, Resolution>>

\* CalculateResolution for an int32 factor converted to float (no overflow below 2^29)
CalculateResolution(TessellationFactor) ==
    CalculateResolutionOfProduct(TessellationFactor * 4)

\* FGPUTessellationBuffers after Reset.  A buffer member holds the number of elements
\* of the pooled buffer it refers to, 0 standing for a null reference; Factor records
\* the tessellation factor the metadata was computed from.
InvalidBuffers ==
    [VertexCount |-> 0, IndexCount |-> 0, ResolutionX |-> 0, ResolutionY |-> 0,
     Factor |-> 0,
     PositionBuffer |-> 0, NormalBuffer |-> 0, UVBuffer |-> 0, IndexBufferRHI |-> 0]

\* FGPUTessellationBuffers::IsValid: the four buffers are set and the counts positive
IsValid(b) ==
    /\ b.PositionBuffer # 0 /\ b.NormalBuffer # 0 /\ b.UVBuffer # 0
    /\ b.IndexBufferRHI # 0
    /\ b.VertexCount > 0 /\ b.IndexCount > 0

\* ExecuteTessellationPipeline(Settings, ..., OutGPUBuffers): the metadata it stores,
\* and the pooled buffers it converts; Factor records Settings.TessellationFactor
ExecuteTessellationPipeline(TessellationFactor) ==
    LET Resolution == CalculateResolution(TessellationFactor)
    IN  [VertexCount |-> Resolution[1] * Resolution[2],
         IndexCount  |-> (Resolution[1] - 1) * (Resolution[2] - 1) * 6,
         ResolutionX |-> Resolution[1],
         ResolutionY |-> Resolution[2],
         Factor      |-> TessellationFactor,
         PositionBuffer |-> Resolution[1] * Resolution[2],
         NormalBuffer   |-> Resolution[1] * Resolution[2],
         UVBuffer       |-> Resolution[1] * Resolution[2],
         IndexBufferRHI |-> (Resolution[1] - 1) * (Resolution[2] - 1) * 6]

----------------------------------------------------------------------------
(* Settings *)

LODModes == {"Disabled", "DistanceBased", "DistanceBasedDiscrete", "DistanceBasedPatches",
             "DensityTexture"}

\* EGPUTessellationPatchLevel as its underlying uint8 values
Patch_4 == 0

Patch_8 == 1

Patch_16 == 2

Patch_32 == 3

Patch_64 == 4

Patch_128 == 5

PatchLevelEnum == Patch_4 .. Patch_128

\* FGPUTessellationSettings with its default member initializers, but for a plane of
\* 24000 x 24000 without displacement, cut into 2 x 1 patches
DefaultSettings ==
    [TessellationFactor      |-> 16,
     PlaneSizeX              |-> 24,
     PlaneSizeY              |-> 24,
     DisplacementIntensity   |-> 0,
     DisplacementOffset      |-> 0,
     PatchCountX             |-> 2,
     PatchCountY             |-> 1,
     PatchLevels             |-> <<Patch_64, Patch_32, Patch_16, Patch_8, Patch_4>>,
     PatchDistances          |-> <<2, 5, 10, 20, 40>>,
     bEnablePatchCulling     |-> TRUE,
     bUseDistanceToBounds    |-> TRUE,
     LODMode                 |-> "Disabled",
     NormalCalculationMethod |-> "FiniteDifference",
     DiscreteLODLevels       |-> <<Patch_64, Patch_32, Patch_16, Patch_8>>,
     DiscreteLODDistances    |-> <<2, 5, 10, 20>>,
     MaxTessellationFactor   |-> 64,
     MinTessellationFactor   |-> 8,
     MinTessellationDistance |-> 1,
     MaxTessellationDistance |-> 50,
     LODTransitionSpeed      |-> 2,
     LODHysteresis           |-> 2]

\* a vertex factory that was not initialized: Buffers holds the number of elements
\* of the position buffer whose view SetBuffers bound, 0 for none
UninitializedFactory == [bNull |-> FALSE, bInitialized |-> FALSE, Buffers |-> 0]

\* a null FGPUTessellationVertexFactory*
NullFactory == [bNull |-> TRUE, bInitialized |-> FALSE, Buffers |-> 0]

\* the rendering thread is between two render commands
NoRenderCommand == [Name |-> "none", Step |-> "idle"]

\* the component has no scene proxy and the rendering thread nothing to do
NoSceneProxy ==
    /\ Settings = DefaultSettings
    /\ bUsePatchMode = FALSE
    /\ bMeshValid = FALSE
    /\ VertexFactory = UninitializedFactory
    /\ PatchVertexFactories = <<>>
    /\ SceneProxy = FALSE
    /\ ProxyState = "none"
    /\ RenderCommands = <<>>
    /\ RenderCommand = NoRenderCommand
    /\ GraphBuilder = <<>>
    /\ MeshBatches = {}
    /\ ReleaseOrder = <<>>

\* the constructor of UGPUTessellationComponent, and OnRegister, which marks the
\* render state dirty for the first mesh
InitComponent(settings) ==
    /\ NoSceneProxy
    /\ TessellationSettings = settings
    /\ CurrentLODLevel = 16 * LODScale
    /\ LastAppliedTessFactor = 16
    /\ LastCameraPosition = ZeroVector
    /\ LastPatchCountX = 1
    /\ LastPatchCountY = 1
    /\ bInitialized = FALSE
    /\ TargetTessFactor = 0
    /\ bRenderStateDirty = TRUE
    /\ lastTick = "none"
    /\ bTickedDistanceBased = FALSE

----------------------------------------------------------------------------
(* Inputs of the component specification *)

\* the camera of the component specification stays on the axis above the component
CameraDistances == {0, 25, 101}

ScaleInputs == {1, 2}

\* the scale of the component of the component specification
ComponentScale == 2

\* <<MinTessellationFactor, MaxTessellationFactor, MinTessellationDistance,
\*   MaxTessellationDistance, LODTransitionSpeed, LODHysteresis,
\*   DiscreteLODLevels, DiscreteLODDistances, bUseDistanceToBounds>>
ComponentInputs ==
    {<<8, 64, 1, 50, 0, 2, DefaultSettings.DiscreteLODLevels,
       DefaultSettings.DiscreteLODDistances, TRUE>>,
     <<8, 64, 50, 1, 0, 0, <<>>, <<>>, FALSE>>,
     <<258, 260, 1, 50, 0, 16, <<Patch_128, Patch_4>>, <<25>>, FALSE>>,
     <<8, 16, 1, 50, 2, 2, <<Patch_16, Patch_8>>, <<25>>, FALSE>>,
     <<8, 16, 50, 1, 2, 0, <<Patch_8, Patch_16>>, <<5, 25>>, TRUE>>}

SettingsInputs ==
    {[DefaultSettings EXCEPT !.LODMode = m,
                             !.MinTessellationFactor = c[1],
                             !.MaxTessellationFactor = c[2],
                             !.MinTessellationDistance = c[3],
                             !.MaxTessellationDistance = c[4],
                             !.LODTransitionSpeed = c[5],
                             !.LODHysteresis = c[6],
                             !.DiscreteLODLevels = c[7],
                             !.DiscreteLODDistances = c[8],
                             !.bUseDistanceToBounds = c[9]] :
        m \in LODModes, c \in ComponentInputs}

----------------------------------------------------------------------------
(* LOD evaluator *)

ComponentLocation == ZeroVector

\* CalculateDistanceToCamera with a camera found: the distance to the pivot, or to the
\* closest point of the plane bounds, which the code spans over local X and Z
CalculateDistanceToCamera ==
    LET S == TessellationSettings
        HalfSizeX == S.PlaneSizeX \div 2
        HalfSizeZ == S.PlaneSizeY \div 2
        ClosestPointWorld ==
            <<Clamp(CameraPosition[1], -HalfSizeX * MaxScale, HalfSizeX * MaxScale),
              0,
              Clamp(CameraPosition[3], -HalfSizeZ * MaxScale, HalfSizeZ * MaxScale)>>
    IN  IF ~S.bUseDistanceToBounds
        THEN VectorDist(ComponentLocation, CameraPosition)
        ELSE VectorDist(ClosestPointWorld, CameraPosition)

\* the margin of the min >= max failsafe, 1000.0f world units
FailsafeMargin == 1

MinLODFactor == 1

MaxLODFactor == 256

\* FMath::RoundToInt of a fixed-point level: floor(c / LODScale + 1/2)
RoundLevel(c) == (2 * c + LODScale) \div (2 * LODScale)

\* the effective far threshold of CalculateLODFactorScaled
EffectiveMaxDist(ScaledMinDistance, ScaledMaxDistance) ==
    IF ScaledMinDistance >= ScaledMaxDistance
    THEN ScaledMinDistance + FailsafeMargin
    ELSE ScaledMaxDistance

\* CalculateLODFactorScaled: t = 0 near, 1 far, smoothstep(n/d) between;
\* RoundToInt(Lerp(Max, Min, t)) = floor(Max + (Min - Max) * n^2 (3d - 2n) / d^3 + 1/2)
CalculateLODFactorScaled(Distance, ScaledMinDistance, ScaledMaxDistance, S) ==
    LET MinDist == ScaledMinDistance
        MaxDist == EffectiveMaxDist(ScaledMinDistance, ScaledMaxDistance)
        A == S.MaxTessellationFactor
        B == S.MinTessellationFactor
        n == Distance - MinDist
        d == MaxDist - MinDist
        Rounded ==
            IF Distance <= MinDist THEN A
            ELSE IF Distance >= MaxDist THEN B
            ELSE (2 * A * d * d * d + 2 * (B - A) * n * n * (3 * d - 2 * n) + d * d * d)
                    \div (2 * d * d * d)
    IN  Clamp(Rounded, MinLODFactor, MaxLODFactor)

\* FMath::FInterpTo(Current, Target, DeltaTime, InterpSpeed) on fixed-point levels,
\* a / InterpDen being Clamp(DeltaTime * InterpSpeed, 0, 1).  A positive step moves
\* the level at least one unit toward the target, so that the level reaches the
\* target as the float does when the remaining distance falls under SMALL_NUMBER.
FInterpTo(Current, Target, a, InterpSpeed) ==
    LET Dist == Target - Current
        Move == (Abs(Dist) * a + InterpDen - 1) \div InterpDen
    IN  IF InterpSpeed <= 0 THEN Target
        ELSE IF Dist = 0 THEN Target
        ELSE IF Dist > 0 THEN Current + Move
        ELSE Current - Move

\* variant of the commit test whose comparison is >= instead of >
ContinuousCommitsInclusive(NewTessFactor, Last, S) ==
    Abs(NewTessFactor - Last) >= S.LODHysteresis

\* the hysteresis test of UpdateDistanceBasedLOD
ContinuousCommits(NewTessFactor, Last, S) ==
    Abs(NewTessFactor - Last) > S.LODHysteresis

\* UpdateDistanceBasedLOD with a camera found, entered with the level Current and the
\* applied factor Last; a is the clamped DeltaTime * LODTransitionSpeed
UpdateDistanceBasedLOD(Current, Last, a) ==
    LET S == TessellationSettings
        ScaledMinDistance == S.MinTessellationDistance * MaxScale
        ScaledMaxDistance == S.MaxTessellationDistance * MaxScale
        Target == CalculateLODFactorScaled(CalculateDistanceToCamera, ScaledMinDistance,
                                           ScaledMaxDistance, S)
        NewLevel == IF S.LODTransitionSpeed > 0
                    THEN FInterpTo(Current, Target * LODScale, a, S.LODTransitionSpeed)
                    ELSE Target * LODScale
        NewTessFactor == RoundLevel(NewLevel)
        Commit == ContinuousCommits(NewTessFactor, Last, S)
    IN  /\ LastCameraPosition' = CameraPosition
        /\ UNCHANGED <<LastPatchCountX, LastPatchCountY, PatchBuffers>>
        /\ CurrentLODLevel' = NewLevel
        /\ LastAppliedTessFactor' = IF Commit THEN NewTessFactor ELSE Last
        /\ bRenderStateDirty' = (bRenderStateDirty \/ Commit)

\* the switch of UpdateDiscreteLOD from the uint8 value to the tessellation factor
PatchLevelToFactor(v) ==
    CASE v = Patch_4   -> 4
      [] v = Patch_8   -> 8
      [] v = Patch_16  -> 16
      [] v = Patch_32  -> 32
      [] v = Patch_64  -> 64
      [] v = Patch_128 -> 128
      [] OTHER         -> 16

\* ScaledDistance > Threshold, ScaledDistance being Distance / MaxScale (MaxScale > 0)
ScaledDistanceBeyond(Distance, Threshold) == Distance > Threshold * MaxScale

\* the threshold loop of UpdateDiscreteLOD from index i on, Target being the value so far
RECURSIVE DiscreteLevelLoop(_, _, _, _)
DiscreteLevelLoop(i, Target, Levels, Distances) ==
    IF ~(i <= Len(Distances) /\ i <= Len(Levels)) THEN Target
    ELSE IF ScaledDistanceBeyond(CalculateDistanceToCamera, Distances[i])
         THEN DiscreteLevelLoop(i + 1,
                                IF i + 1 <= Len(Levels) THEN Levels[i + 1] ELSE Target,
                                Levels, Distances)
         ELSE Levels[i]

\* the level selection of UpdateDiscreteLOD: the int32 TargetTessFactor before the
\* switch holds 4 or the uint8 value of a level, and the switch reads it as a level
DiscreteTargetFactor(S) ==
    LET Selected == IF Len(S.DiscreteLODLevels) > 0
                    THEN DiscreteLevelLoop(1, S.DiscreteLODLevels[1],
                                           S.DiscreteLODLevels, S.DiscreteLODDistances)
                    ELSE 4
    IN  PatchLevelToFactor(Selected)

\* the hysteresis test of UpdateDiscreteLOD
DiscreteCommits(Target, Last, S) == Abs(Target - Last) >= S.LODHysteresis

\* UpdateDiscreteLOD with a camera found
UpdateDiscreteLOD ==
    LET S == TessellationSettings
        Target == DiscreteTargetFactor(S)
        Commit == DiscreteCommits(Target, LastAppliedTessFactor, S)
    IN  /\ LastAppliedTessFactor' = IF Commit THEN Target ELSE LastAppliedTessFactor
        /\ CurrentLODLevel' = IF Commit THEN Target * LODScale ELSE CurrentLODLevel
        /\ bRenderStateDirty' = (bRenderStateDirty \/ Commit)
        /\ UNCHANGED patchVars

----------------------------------------------------------------------------
(* Patch partitioner *)

\* the factor CalculatePatchTessellationLevel returns without PatchLevels
DefaultPatchLevel == 16

\* the largest edge collapse factor
MaxCollapseFactor == 64

\* ConvertPatchLevelToTessellation
ConvertPatchLevelToTessellation(Level) ==
    CASE Level = Patch_4   -> 4
      [] Level = Patch_8   -> 8
      [] Level = Patch_16  -> 16
      [] Level = Patch_32  -> 32
      [] Level = Patch_64  -> 64
      [] Level = Patch_128 -> 128
      [] OTHER             -> 16

\* DistanceToCamera <= Threshold, from the squared distance (Threshold >= 0)
DistanceWithin(DistSq, Threshold) == DistSq <= Threshold * Threshold

\* the index i at which the threshold loop of CalculatePatchTessellationLevel breaks,
\* searched from i on; 0 when it runs to the end
RECURSIVE PatchBracket(_, _, _)
PatchBracket(i, DistSq, Distances) ==
    IF i > Len(Distances) THEN 0
    ELSE IF DistanceWithin(DistSq, Distances[i]) THEN i
    ELSE PatchBracket(i + 1, DistSq, Distances)

\* CalculatePatchTessellationLevel(DistanceToCamera, Settings), DistSq being the
\* square of DistanceToCamera; indices count from 1
CalculatePatchTessellationLevel(DistSq, S) ==
    LET Levels    == S.PatchLevels
        Distances == S.PatchDistances
        Bracket   == PatchBracket(1, DistSq, Distances)
        InLoop    == IF Bracket # 0 /\ Bracket <= Len(Levels)
                     THEN Levels[Bracket] ELSE Levels[1]
        LastIndex == Min(Len(Distances), Len(Levels))
        Beyond    == ~DistanceWithin(DistSq, Distances[Len(Distances)])
        TargetLevel == IF Beyond /\ LastIndex >= 1 /\ LastIndex <= Len(Levels)
                       THEN Levels[LastIndex] ELSE InLoop
    IN  IF Len(Levels) = 0 THEN DefaultPatchLevel
        ELSE IF Len(Distances) = 0 THEN ConvertPatchLevelToTessellation(Levels[1])
        ELSE ConvertPatchLevelToTessellation(TargetLevel)

\* float values of the UV rectangles, as whole multiples of 2^-27: every float in
\* [1/16, 2] is one, so that the arithmetic on them below is the one of IEEE single
\* precision with round-to-nearest-even
FloatOne == 134217728

\* the spacing of the floats around the value q, in multiples of 2^-27
FloatUlp(q) ==
    IF q < 16777216 THEN 1
    ELSE IF q < 33554432 THEN 2
    ELSE IF q < 67108864 THEN 4
    ELSE IF q < 134217728 THEN 8
    ELSE IF q < 268435456 THEN 16
    ELSE 32

\* the float nearest to num / den, ties to the even mantissa
RoundToFloat(num, den) ==
    LET D   == den * FloatUlp(num \div den)
        k   == num \div D
        rem == num - k * D
        up  == 2 * rem > D \/ (2 * rem = D /\ k % 2 = 1)
    IN  (IF up THEN k + 1 ELSE k) * FloatUlp(num \div den)

\* 1.0f / static_cast<float>(PatchCount)
PatchUVSize(PatchCount) == RoundToFloat(FloatOne, PatchCount)

\* X * PatchUVSize
PatchUVOffset(X, PatchCount) == RoundToFloat(X * PatchUVSize(PatchCount), 1)

\* LocalToWorld.TransformPosition of the centre of patch (X, Y): plane sizes are
\* multiples of twice the patch counts, so that the centre is a whole point
PatchWorldCenter(S, Scale, X, Y, PatchCountX, PatchCountY) ==
    <<Scale * ((S.PlaneSizeX * (2 * X + 1 - PatchCountX)) \div (2 * PatchCountX)),
      Scale * ((S.PlaneSizeY * (2 * Y + 1 - PatchCountY)) \div (2 * PatchCountY)),
      Scale * (S.DisplacementOffset + S.DisplacementIntensity \div 2)>>

\* a null const FConvexVolume*.  A view frustum is given by the patches whose bounds
\* it intersects.
NullFrustum == [bNull |-> TRUE, Boxes |-> {}]

\* ViewFrustum->IntersectBox on the bounds of patch PatchIndex
IntersectBox(ViewFrustum, PatchIndex) == PatchIndex \in ViewFrustum.Boxes

\* CalculatePatchInfo: PatchInfo[Y * PatchCountX + X + 1] is patch (X, Y).  PatchOffset
\* and PatchSize hold the floats along X and Y.
CalculatePatchInfo(S, Scale, Camera, ViewFrustum, PatchCountX, PatchCountY) ==
    [i \in 1 .. PatchCountX * PatchCountY |->
        LET X == (i - 1) % PatchCountX
            Y == (i - 1) \div PatchCountX
            WorldCenter == PatchWorldCenter(S, Scale, X, Y, PatchCountX, PatchCountY)
            Level == CalculatePatchTessellationLevel(DistSquared(WorldCenter, Camera), S)
            PatchResolution == CalculateResolution(Level)
        IN  [PatchIndexX         |-> X,
             PatchIndexY         |-> Y,
             PatchOffset         |-> <<PatchUVOffset(X, PatchCountX),
                                       PatchUVOffset(Y, PatchCountY)>>,
             PatchSize           |-> <<PatchUVSize(PatchCountX),
                                       PatchUVSize(PatchCountY)>>,
             WorldCenter         |-> WorldCenter,
             TessellationLevel   |-> Level,
             ResolutionX         |-> PatchResolution[1],
             ResolutionY         |-> PatchResolution[2],
             bVisible            |-> IF ~ViewFrustum.bNull /\ S.bEnablePatchCulling
                                     THEN IntersectBox(ViewFrustum, i)
                                     ELSE TRUE,
             EdgeCollapseFactors |-> <<1, 1, 1, 1>>]]

\* GetPatch of ComputePatchEdgeTransitions: <<>> stands for nullptr
GetPatch(PatchInfo, PatchCountX, PatchCountY, X, Y) ==
    IF X < 0 \/ X >= PatchCountX \/ Y < 0 \/ Y >= PatchCountY THEN <<>>
    ELSE <<PatchInfo[Y * PatchCountX + X + 1]>>

\* collapse factors clamped to 16
ComputeFactorClamp16(Patch, Neighbor, bVerticalEdge) ==
    IF Neighbor = <<>> THEN 1
    ELSE IF Neighbor[1].TessellationLevel >= Patch.TessellationLevel THEN 1
    ELSE Clamp(Max(1, (Patch.ResolutionX - 1) \div (Neighbor[1].ResolutionX - 1)), 1, 16)

\* the coarser patch collapses toward the finer one
ComputeFactorTowardFiner(Patch, Neighbor, bVerticalEdge) ==
    IF Neighbor = <<>> THEN 1
    ELSE IF Neighbor[1].TessellationLevel <= Patch.TessellationLevel THEN 1
    ELSE Clamp(Max(1, (Neighbor[1].ResolutionX - 1) \div (Patch.ResolutionX - 1)),
               1, MaxCollapseFactor)

\* the lambda ComputeFactor of ComputePatchEdgeTransitions
ComputeFactor(Patch, Neighbor, bVerticalEdge) ==
    IF Neighbor = <<>> THEN 1
    ELSE IF Patch.ResolutionX <= 0 \/ Patch.ResolutionY <= 0
            \/ Neighbor[1].ResolutionX <= 0 \/ Neighbor[1].ResolutionY <= 0 THEN 1
    ELSE IF Neighbor[1].TessellationLevel >= Patch.TessellationLevel THEN 1
    ELSE LET MySegments == IF bVerticalEdge THEN Max(1, Patch.ResolutionY - 1)
                           ELSE Max(1, Patch.ResolutionX - 1)
             NeighborSegments == IF bVerticalEdge THEN Max(1, Neighbor[1].ResolutionY - 1)
                                 ELSE Max(1, Neighbor[1].ResolutionX - 1)
         IN  IF NeighborSegments <= 0 \/ MySegments <= NeighborSegments THEN 1
             ELSE Clamp(Max(1, MySegments \div NeighborSegments), 1, MaxCollapseFactor)

\* ComputePatchEdgeTransitions; EdgeCollapseFactors is <<west, east, south, north>>
ComputePatchEdgeTransitions(PatchCountX, PatchCountY, PatchInfo) ==
    IF PatchCountX <= 0 \/ PatchCountY <= 0 \/ Len(PatchInfo) # PatchCountX * PatchCountY
    THEN PatchInfo
    ELSE [i \in 1 .. Len(PatchInfo) |->
            LET Patch == PatchInfo[i]
                X == (i - 1) % PatchCountX
                Y == (i - 1) \div PatchCountX
                N(NX, NY) == GetPatch(PatchInfo, PatchCountX, PatchCountY, NX, NY)
            IN  [Patch EXCEPT !.EdgeCollapseFactors =
                    <<ComputeFactor(Patch, N(X - 1, Y), TRUE),
                      ComputeFactor(Patch, N(X + 1, Y), TRUE),
                      ComputeFactor(Patch, N(X, Y - 1), FALSE),
                      ComputeFactor(Patch, N(X, Y + 1), FALSE)>>]]

\* the validation of UV offset and scale in GenerateSinglePatch, on fractions with a
\* positive denominator: a component below 0 or above 1, a size not above 0 or above 1
MalformedUV(Patch) ==
    \/ \E c \in 1 .. 2 : Patch.PatchOffset[c] < 0 \/ Patch.PatchOffset[c] > FloatOne
    \/ \E c \in 1 .. 2 : Patch.PatchSize[c] <= 0 \/ Patch.PatchSize[c] > FloatOne

\* GenerateSinglePatch returns before it creates a buffer or adds a pass
GenerateSinglePatchAborts(Patch) ==
    LET Resolution == CalculateResolution(Patch.TessellationLevel)
        VertexCount == Resolution[1] * Resolution[2]
        IndexCount == (Resolution[1] - 1) * (Resolution[2] - 1) * 6
    IN  \/ Patch.TessellationLevel <= 0
        \/ Resolution[1] < 2 \/ Resolution[2] < 2
        \/ VertexCount <= 0 \/ IndexCount <= 0
        \/ MalformedUV(Patch)

\* GenerateSinglePatch: what it leaves in the buffers of one patch once its graph ran
GenerateSinglePatch(Patch) ==
    LET Resolution == CalculateResolution(Patch.TessellationLevel)
        VertexCount == Resolution[1] * Resolution[2]
        IndexCount == (Resolution[1] - 1) * (Resolution[2] - 1) * 6
    IN  IF GenerateSinglePatchAborts(Patch)
        THEN InvalidBuffers
        ELSE [VertexCount |-> VertexCount,
              IndexCount  |-> IndexCount,
              ResolutionX |-> Resolution[1],
              ResolutionY |-> Resolution[2],
              Factor      |-> Patch.TessellationLevel,
              PositionBuffer |-> VertexCount,
              NormalBuffer   |-> VertexCount,
              UVBuffer       |-> VertexCount,
              IndexBufferRHI |-> IndexCount]

\* FGPUTessellationPatchBuffers of a scene proxy before any patch pipeline ran
EmptyPatchBuffers ==
    [PatchBuffers |-> <<>>, PatchInfo |-> <<>>, PatchCountX |-> 0, PatchCountY |-> 0,
     CameraPosition |-> ZeroVector]

\* ExecutePatchTessellationPipeline: what it leaves in OutPatchBuffers, and the
\* CameraPosition it was called with
ExecutePatchTessellationPipeline(S, Scale, Camera, ViewFrustum, PatchCountX, PatchCountY) ==
    LET PatchInfo == ComputePatchEdgeTransitions(PatchCountX, PatchCountY,
                        CalculatePatchInfo(S, Scale, Camera, ViewFrustum,
                                           PatchCountX, PatchCountY))
    IN  [PatchBuffers |-> [i \in 1 .. PatchCountX * PatchCountY |->
                              IF ~PatchInfo[i].bVisible \/ PatchInfo[i].TessellationLevel <= 0
                              THEN InvalidBuffers
                              ELSE GenerateSinglePatch(PatchInfo[i])],
         PatchInfo    |-> PatchInfo,
         PatchCountX  |-> PatchCountX,
         PatchCountY  |-> PatchCountY,
         CameraPosition |-> Camera]

\* the movement threshold of UpdatePatchBasedLOD is 100 world units times the scale:
\* CameraMovement > ScaledThreshold, from the squared movement
MovedBeyondThreshold(MovementSq, Scale) == MovementSq * 100 > Scale * Scale

\* UpdatePatchBasedLOD with a camera found; SendRenderDynamicData_Concurrent and the
\* render commands it enqueues regenerate the patches of the scene proxy
UpdatePatchBasedLOD ==
    LET S == TessellationSettings
        Update == \/ LastPatchCountX # S.PatchCountX
                  \/ LastPatchCountY # S.PatchCountY
                  \/ MovedBeyondThreshold(DistSquared(CameraPosition, LastCameraPosition),
                                          MaxScale)
    IN  IF Update
        THEN /\ LastPatchCountX' = S.PatchCountX
             /\ LastPatchCountY' = S.PatchCountY
             /\ LastCameraPosition' = CameraPosition
             /\ PatchBuffers' =
                   IF S.TessellationFactor > 0
                   THEN ExecutePatchTessellationPipeline(S, MaxScale, CameraPosition,
                                                         NullFrustum,
                                                         S.PatchCountX, S.PatchCountY)
                   ELSE PatchBuffers
        ELSE UNCHANGED <<LastPatchCountX, LastPatchCountY, LastCameraPosition, PatchBuffers>>

----------------------------------------------------------------------------
(* Component *)

\* an initialization that fires on every DistanceBased tick
InitializesLODEveryTick == TessellationSettings.LODMode = "DistanceBased"

\* the first-time initialization of the DistanceBased case fires in this tick
InitializesLOD == TessellationSettings.LODMode = "DistanceBased" /\ ~bInitialized

\* the applied factor with which this tick enters the evaluator
LastAppliedAtEntry ==
    IF InitializesLOD THEN TessellationSettings.MaxTessellationFactor
    ELSE LastAppliedTessFactor

\* the level with which this tick enters the evaluator
CurrentLevelAtEntry ==
    IF InitializesLOD THEN TessellationSettings.MaxTessellationFactor * LODScale
    ELSE CurrentLODLevel

\* TickComponent (bAutoUpdate set) with delta time a / InterpDen; bFoundCamera: the
\* world has a player controller or an editor viewport.  It runs in the tick phase of a frame: a render state marked
\* dirty in an earlier frame was recreated by that frame's end-of-frame update.
TickWithDelta(a, bFoundCamera) ==
    /\ ~bRenderStateDirty
    /\ LET Mode == TessellationSettings.LODMode
           Continuous == Mode \in {"DistanceBased", "DensityTexture"}
           Discrete == Mode = "DistanceBasedDiscrete"
           Patches == Mode = "DistanceBasedPatches"
       IN  /\ bInitialized' = (bInitialized \/ Mode = "DistanceBased")
           /\ bTickedDistanceBased' = (bTickedDistanceBased \/ Mode = "DistanceBased")
           /\ IF Continuous /\ bFoundCamera
              THEN UpdateDistanceBasedLOD(CurrentLevelAtEntry, LastAppliedAtEntry, a)
              ELSE IF Discrete /\ bFoundCamera
              THEN UpdateDiscreteLOD
              ELSE /\ CurrentLODLevel' = CurrentLevelAtEntry
                   /\ LastAppliedTessFactor' = LastAppliedAtEntry
                   /\ UNCHANGED bRenderStateDirty
                   /\ IF Patches /\ bFoundCamera
                      THEN UpdatePatchBasedLOD
                      ELSE UNCHANGED patchVars
           /\ lastTick' = IF Mode = "Disabled" \/ bFoundCamera THEN Mode ELSE "none"
           /\ UNCHANGED <<TessellationSettings, MaxScale, CameraPosition, TargetTessFactor,
                          GPUBuffers, resVars, renderVars>>

\* TickComponent with any delta time (a = 0: a frame of zero length), with or
\* without a camera
TickComponent ==
    \E a \in 0 .. InterpDen, bFoundCamera \in BOOLEAN : TickWithDelta(a, bFoundCamera)

\* a tick of another component instance in DistanceBased mode: it shares the static
OtherInstanceTick ==
    /\ ~bInitialized
    /\ bInitialized' = TRUE
    /\ UNCHANGED <<TessellationSettings, CurrentLODLevel, LastAppliedTessFactor, MaxScale,
                   CameraPosition, TargetTessFactor, bRenderStateDirty, lastTick,
                   GPUBuffers, resVars, patchVars, bTickedDistanceBased, renderVars>>

\* the camera moves along the axis above the component
MoveCamera ==
    \E D \in CameraDistances :
        /\ <<0, 0, D>> # CameraPosition
        /\ CameraPosition' = <<0, 0, D>>
        /\ lastTick' = "none"
        /\ UNCHANGED <<TessellationSettings, CurrentLODLevel, LastAppliedTessFactor,
                       bInitialized, MaxScale, TargetTessFactor, bRenderStateDirty,
                       GPUBuffers, resVars, patchVars, bTickedDistanceBased, renderVars>>

\* UpdateSettings(NewSettings), NewSettings being the settings with another LODMode
UpdateSettings ==
    \E NewMode \in LODModes :
        /\ NewMode # TessellationSettings.LODMode
        /\ TessellationSettings' = [TessellationSettings EXCEPT !.LODMode = NewMode]
        /\ bRenderStateDirty' = TRUE
        /\ lastTick' = "none"
        /\ UNCHANGED <<CurrentLODLevel, LastAppliedTessFactor, bInitialized, MaxScale,
                       CameraPosition, TargetTessFactor, GPUBuffers, resVars, patchVars,
                       bTickedDistanceBased, renderVars>>

\* a factor selection that ignores the LOD result
EffectiveTessellationFactorBaseOnly ==
    TessellationSettings.TessellationFactor

\* the factor the scene proxy puts into EffectiveSettings.TessellationFactor, the
\* one CalculateGridResolution uses as well
EffectiveTessellationFactor ==
    IF TessellationSettings.LODMode # "Disabled"
    THEN LastAppliedTessFactor
    ELSE TessellationSettings.TessellationFactor

\* the fallback camera of the scene proxy constructor, 2000 units above the component
FallbackCameraOffset == <<0, 0, 2>>

\* the camera location the scene proxy constructor reads: the one of the
\* PlayerCameraManager, or the ZeroVector it starts from without one
PlayerCameraLocation(bHasCameraManager) ==
    IF bHasCameraManager THEN CameraPosition ELSE ZeroVector

\* the CameraPosition the scene proxy constructor generates the first mesh with: the
\* fallback replaces every position that is zero or that holds no NaN
ProxyCameraPosition(bHasCameraManager) ==
    LET Found == PlayerCameraLocation(bHasCameraManager)
        ContainsNaN == FALSE
    IN  IF Found = ZeroVector \/ ~ContainsNaN
        THEN <<ComponentLocation[1] + FallbackCameraOffset[1],
               ComponentLocation[2] + FallbackCameraOffset[2],
               ComponentLocation[3] + FallbackCameraOffset[3]>>
        ELSE Found

\* the render state is recreated: CreateSceneProxy, the constructor of the scene
\* proxy, and the render command it enqueues, which runs ExecuteTessellationPipeline
\* or, in patch mode, ExecutePatchTessellationPipeline on the buffers of the new proxy
CreateSceneProxy ==
    /\ bRenderStateDirty
    /\ bRenderStateDirty' = FALSE
    /\ \E bHasCameraManager \in BOOLEAN :
        LET S == TessellationSettings
            bPatchMode == S.LODMode = "DistanceBasedPatches"
        IN  /\ GPUBuffers' =
                  IF S.TessellationFactor > 0 /\ ~bPatchMode
                  THEN ExecuteTessellationPipeline(EffectiveTessellationFactor)
                  ELSE InvalidBuffers
            /\ PatchBuffers' =
                  IF S.TessellationFactor > 0 /\ bPatchMode
                  THEN ExecutePatchTessellationPipeline(
                          S, MaxScale, ProxyCameraPosition(bHasCameraManager),
                          NullFrustum, S.PatchCountX, S.PatchCountY)
                  ELSE EmptyPatchBuffers
    /\ UNCHANGED <<TessellationSettings, CurrentLODLevel, LastAppliedTessFactor,
                   bInitialized, MaxScale, CameraPosition, TargetTessFactor, lastTick,
                   resVars, LastCameraPosition, LastPatchCountX, LastPatchCountY,
                   bTickedDistanceBased, renderVars>>

Init ==
    /\ calcArg = <<0, 0>>
    /\ calcProduct = 0
    /\ calcResult = <<0, 0>>
    /\ GPUBuffers = InvalidBuffers
    /\ PatchBuffers = EmptyPatchBuffers
    /\ \E settings \in SettingsInputs : InitComponent(settings)
    /\ MaxScale = ComponentScale
    /\ CameraPosition = ZeroVector

Next ==
    \/ TickComponent
    \/ OtherInstanceTick
    \/ MoveCamera
    \/ UpdateSettings
    \/ CreateSceneProxy

Spec == Init /\ [][Next]_vars

----------------------------------------------------------------------------
(* Specification SpecRes: the resolution calculator and the single-mesh pipeline *)

HugeFactors == {2^29 - 1, 2^29, 2^29 + 1, 2^30, MaxInt32 - 1}

FactorInputs ==
    {<<w, h>> : w \in (-2 .. MaxFactorInput) \cup HugeFactors, h \in {0, 1}}

\* the factors a component can be configured with (ClampMin 1, ClampMax 512)
MinFactorSetting == 1

MaxFactorSetting == 512

InitRes ==
    /\ calcArg \in FactorInputs
    /\ calcProduct = 0
    /\ calcResult = <<0, 0>>
    /\ GPUBuffers = InvalidBuffers
    /\ PatchBuffers = EmptyPatchBuffers
    /\ InitComponent(DefaultSettings)
    /\ MaxScale = 1
    /\ CameraPosition = ZeroVector

\* one call CalculateResolution(calcArg)
CalculateResolutionCall ==
    /\ calcResult = <<0, 0>>
    /\ \E p \in SegmentProducts(calcArg) :
            /\ calcProduct' = p
            /\ calcResult' = CalculateResolutionOfProduct(p)
    /\ UNCHANGED <<calcArg, GPUBuffers, lodVars, patchVars, bTickedDistanceBased,
                   renderVars>>

\* the render command of the single-mesh path, for a component whose
\* Settings.TessellationFactor is the integer calcArg stands for
GenerateTessellatedMesh ==
    /\ calcArg[2] = 0
    /\ calcArg[1] \in MinFactorSetting .. MaxFactorSetting
    /\ ~IsValid(GPUBuffers)
    /\ GPUBuffers' = ExecuteTessellationPipeline(calcArg[1])
    /\ UNCHANGED <<resVars, lodVars, patchVars, bTickedDistanceBased, renderVars>>

NextRes == CalculateResolutionCall \/ GenerateTessellatedMesh

SpecRes == InitRes /\ [][NextRes]_vars

----------------------------------------------------------------------------
(* Specification SpecLODFactor: CalculateLODFactorScaled on its own *)

FactorSettings == {1, 8, 64, 256, 257, 512}

DistanceSettings == {<<1, 50>>, <<0, 50>>, <<50, 1>>, <<50, 50>>}

InitLODFactor ==
    /\ calcArg = <<0, 0>>
    /\ calcProduct = 0
    /\ calcResult = <<0, 0>>
    /\ GPUBuffers = InvalidBuffers
    /\ \E lo \in FactorSettings, hi \in FactorSettings, d \in DistanceSettings :
          InitComponent([DefaultSettings EXCEPT !.LODMode = "DistanceBased",
                                                !.bUseDistanceToBounds = FALSE,
                                                !.MinTessellationFactor = lo,
                                                !.MaxTessellationFactor = hi,
                                                !.MinTessellationDistance = d[1],
                                                !.MaxTessellationDistance = d[2]])
    /\ PatchBuffers = EmptyPatchBuffers
    /\ MaxScale \in ScaleInputs
    /\ \E D \in 0 .. MaxDistanceInput : CameraPosition = <<0, 0, D>>

\* the call CalculateLODFactorScaled(Distance, ScaledMinDistance, ScaledMaxDistance)
\* of UpdateDistanceBasedLOD
CalculateLODFactorScaledCall ==
    /\ TargetTessFactor = 0
    /\ TargetTessFactor' =
          CalculateLODFactorScaled(CalculateDistanceToCamera,
                                   TessellationSettings.MinTessellationDistance * MaxScale,
                                   TessellationSettings.MaxTessellationDistance * MaxScale,
                                   TessellationSettings)
    /\ UNCHANGED <<TessellationSettings, CurrentLODLevel, LastAppliedTessFactor,
                   bInitialized, MaxScale, CameraPosition, bRenderStateDirty, lastTick,
                   GPUBuffers, resVars, patchVars, bTickedDistanceBased, renderVars>>

NextLODFactor == CalculateLODFactorScaledCall

SpecLODFactor == InitLODFactor /\ [][NextLODFactor]_vars

----------------------------------------------------------------------------
(* Specification SpecPatch: a component in patch mode under one camera position *)

\* the PatchLevels arrays with at most MaxPatchEntries entries
PatchLevelInputs ==
    UNION {[1 .. n -> PatchLevelEnum] : n \in 0 .. MaxPatchEntries}

\* PatchDistances: none, one, two ascending, two descending
PatchDistanceInputs == {<<>>, <<2>>, <<2, 5>>, <<5, 2>>}

PatchCountInputs == {<<1, 1>>, <<2, 1>>, <<1, 2>>, <<2, 2>>}

PatchCameraPositions == {<<-6, 0, 1>>, <<0, 0, 3>>, <<6, -6, 3>>, ZeroVector}

InitPatch ==
    /\ calcArg = <<0, 0>>
    /\ calcProduct = 0
    /\ calcResult = <<0, 0>>
    /\ GPUBuffers = InvalidBuffers
    /\ PatchBuffers = EmptyPatchBuffers
    /\ \E Levels \in PatchLevelInputs, Distances \in PatchDistanceInputs,
          Counts \in PatchCountInputs :
          InitComponent([DefaultSettings EXCEPT !.LODMode = "DistanceBasedPatches",
                                                !.PatchLevels = Levels,
                                                !.PatchDistances = Distances,
                                                !.PatchCountX = Counts[1],
                                                !.PatchCountY = Counts[2]])
    /\ MaxScale \in ScaleInputs
    /\ CameraPosition \in PatchCameraPositions

NextPatch ==
    \/ CreateSceneProxy
    \/ TickComponent

SpecPatch == InitPatch /\ [][NextPatch]_vars

----------------------------------------------------------------------------
(* Claims on the resolution calculator (SpecRes) *)

\* C1: for every tessellation factor >= 0, CalculateResolution returns a resolution R
\* with 9 <= R <= 1025 and (R - 1) mod 8 = 0.
C1_ResolutionAligned ==
    (calcResult # <<0, 0>> /\ calcArg[1] >= 0) =>
        /\ 9 <= calcResult[1] /\ calcResult[1] <= 1025
        /\ (calcResult[1] - 1) % 8 = 0

\* C2: the grid generated for a tessellation factor F in {4, 8, 16, 32, 64} has exactly
\* 4F x 4F vertices; factor 16 gives resolution (64, 64), 4096 vertices.
C2_GridIs4Fx4F ==
    (IsValid(GPUBuffers) /\ GPUBuffers.Factor \in {4, 8, 16, 32, 64}) =>
        /\ GPUBuffers.ResolutionX = 4 * GPUBuffers.Factor
        /\ GPUBuffers.ResolutionY = 4 * GPUBuffers.Factor
        /\ GPUBuffers.VertexCount = (4 * GPUBuffers.Factor) * (4 * GPUBuffers.Factor)

\* the resolution the claim C3 states for a factor whose segment product is p
C3_StatedResolution(p) ==
    LET S0 == IF p > 1 THEN p ELSE 1
        S  == IF S0 < 8 THEN 8 ELSE IF S0 > 1023 THEN 1023 ELSE S0
        S8 == ((S + 7) \div 8) * 8
    IN  IF S8 + 1 < 1024 THEN S8 + 1 ELSE 1024

----------------------------------------------------------------------------
(* Claims on the LOD evaluator (SpecLODFactor, Spec) *)

\* C4: in continuous LOD, for every MinTessellationFactor and MaxTessellationFactor in
\* 1..512, the target factor of CalculateLODFactorScaled equals MaxTessellationFactor
\* when distance <= scaledMin and MinTessellationFactor when distance >= the effective
\* scaledMax (scaledMax, or scaledMin + 1000 when scaledMin >= scaledMax).
C4_TargetAtRangeEnds ==
    LET S == TessellationSettings
        ScaledMin == S.MinTessellationDistance * MaxScale
        ScaledMax == S.MaxTessellationDistance * MaxScale
        EffMax == IF ScaledMin >= ScaledMax THEN ScaledMin + 1 ELSE ScaledMax
    IN  TargetTessFactor # 0 =>
            /\ (CalculateDistanceToCamera <= ScaledMin =>
                    TargetTessFactor = S.MaxTessellationFactor)
            /\ (CalculateDistanceToCamera >= EffMax =>
                    TargetTessFactor = S.MinTessellationFactor)

ContinuousMode == TessellationSettings.LODMode \in {"DistanceBased", "DensityTexture"}

\* the target factor for the current distance and settings
CurrentTarget ==
    CalculateLODFactorScaled(CalculateDistanceToCamera,
                             TessellationSettings.MinTessellationDistance * MaxScale,
                             TessellationSettings.MaxTessellationDistance * MaxScale,
                             TessellationSettings)

\* C5: ticking the evaluator again with an unchanged camera distance and unchanged
\* settings never changes LastAppliedTessFactor (continuous and discrete mode).
C5_Idempotent ==
    [][(TickComponent /\ lastTick # "none") =>
            LastAppliedTessFactor' = LastAppliedTessFactor]_vars

\* C5 as amended: the same, in continuous mode only once the smoothed CurrentLODLevel
\* has reached the target factor.
C5_IdempotentOnceSettled ==
    [][(/\ TickComponent
        /\ lastTick # "none"
        /\ (ContinuousMode => CurrentLODLevel = CurrentTarget * LODScale)) =>
            LastAppliedTessFactor' = LastAppliedTessFactor]_vars

\* C5 witness: a continuous tick has run, the level has reached its target, and the
\* applied factor stays apart from it within the hysteresis
C5_Witness ==
    /\ lastTick = "DistanceBased"
    /\ TessellationSettings.LODTransitionSpeed > 0
    /\ CurrentLODLevel = CurrentTarget * LODScale
    /\ LastAppliedTessFactor # CurrentTarget

C7_BaseFactorPreserved ==
    [][/\ (TickComponent =>
              TessellationSettings'.TessellationFactor
                  = TessellationSettings.TessellationFactor)
       /\ ((CreateSceneProxy /\ IsValid(GPUBuffers')) =>
              /\ (TessellationSettings.LODMode # "Disabled" =>
                     GPUBuffers'.Factor = LastAppliedTessFactor)
              /\ (TessellationSettings.LODMode = "Disabled" =>
                     GPUBuffers'.Factor = TessellationSettings.TessellationFactor))]_vars

\* C7 witness: a mesh generated from a LOD factor that differs from the base factor
C7_Witness ==
    /\ IsValid(GPUBuffers)
    /\ TessellationSettings.LODMode # "Disabled"
    /\ lastTick # "none"
    /\ GPUBuffers.Factor = LastAppliedTessFactor
    /\ LastAppliedTessFactor # TessellationSettings.TessellationFactor

----------------------------------------------------------------------------
(* Claims on the patch partitioner (SpecPatch) *)

\* the patches the scene proxy holds
Patches == 1 .. Len(PatchBuffers.PatchInfo)

\* C8: for every configuration of PatchLevels and PatchDistances, a patch whose world
\* centre is at distance D from the camera gets the tessellation factor of
\* PatchLevels[i] for the smallest i with D <= PatchDistances[i], and that of the last
\* entry of PatchLevels when D exceeds every threshold.
C8_PatchLevelLookup ==
    \A p \in Patches :
        LET Patch     == PatchBuffers.PatchInfo[p]
            Levels    == TessellationSettings.PatchLevels
            Distances == TessellationSettings.PatchDistances
            DSq       == DistSquared(Patch.WorldCenter, PatchBuffers.CameraPosition)
            Hits      == {j \in 1 .. Len(Distances) : DSq <= Distances[j] * Distances[j]}
            First     == CHOOSE j \in Hits : \A k \in Hits : j <= k
        IN  Len(Levels) > 0 =>
                IF Hits # {}
                THEN First <= Len(Levels) =>
                        Patch.TessellationLevel
                            = ConvertPatchLevelToTessellation(Levels[First])
                ELSE Patch.TessellationLevel
                        = ConvertPatchLevelToTessellation(Levels[Len(Levels)])

\* the sides of a patch in the order of EdgeCollapseFactors: west, east, south, north
Sides == 1 .. 4

FacingSide(side) == CASE side = 1 -> 2 [] side = 2 -> 1 [] side = 3 -> 4 [] side = 4 -> 3

\* the index of the patch beyond the given side of patch p, 0 when there is none
NeighborOf(p, side) ==
    LET CX == PatchBuffers.PatchCountX
        CY == PatchBuffers.PatchCountY
        X  == PatchBuffers.PatchInfo[p].PatchIndexX
        Y  == PatchBuffers.PatchInfo[p].PatchIndexY
        NX == CASE side = 1 -> X - 1 [] side = 2 -> X + 1 [] OTHER -> X
        NY == CASE side = 3 -> Y - 1 [] side = 4 -> Y + 1 [] OTHER -> Y
    IN  IF NX < 0 \/ NX >= CX \/ NY < 0 \/ NY >= CY THEN 0 ELSE NY * CX + NX + 1

\* the segments along the given side in the buffers generated for patch p
SegmentsAlong(p, side) ==
    IF side <= 2 THEN PatchBuffers.PatchBuffers[p].ResolutionY - 1
    ELSE PatchBuffers.PatchBuffers[p].ResolutionX - 1

\* C9: after ComputePatchEdgeTransitions, a side whose neighbor exists and has a
\* strictly lower tessellation level has the collapse factor
\* max(1, (myRes - 1) / (neighborRes - 1)) clamped to [1, 64]; every other side has 1;
\* of two facing factors at most one exceeds 1.
C9_EdgeCollapseFactors ==
    \A p \in Patches : \A side \in Sides :
        LET Patch  == PatchBuffers.PatchInfo[p]
            n      == NeighborOf(p, side)
            Factor == Patch.EdgeCollapseFactors[side]
        IN  IF n # 0 /\ PatchBuffers.PatchInfo[n].TessellationLevel < Patch.TessellationLevel
            THEN LET MyRes == IF side <= 2 THEN Patch.ResolutionY ELSE Patch.ResolutionX
                     NeighborRes == IF side <= 2 THEN PatchBuffers.PatchInfo[n].ResolutionY
                                    ELSE PatchBuffers.PatchInfo[n].ResolutionX
                     Ratio == (MyRes - 1) \div (NeighborRes - 1)
                     Raised == IF Ratio > 1 THEN Ratio ELSE 1
                 IN  /\ Factor = (IF Raised > 64 THEN 64 ELSE Raised)
                     /\ PatchBuffers.PatchInfo[n].EdgeCollapseFactors[FacingSide(side)] = 1
            ELSE /\ Factor = 1
                 /\ n # 0 =>
                      (PatchBuffers.PatchInfo[n].TessellationLevel = Patch.TessellationLevel
                          => PatchBuffers.PatchInfo[n].EdgeCollapseFactors[FacingSide(side)] = 1)

\* C9 witness: a level-64 patch west of a level-16 patch, factors 4 and 1
C9_Witness ==
    \E p \in Patches :
        /\ NeighborOf(p, 2) # 0
        /\ PatchBuffers.PatchInfo[p].TessellationLevel = 64
        /\ PatchBuffers.PatchInfo[NeighborOf(p, 2)].TessellationLevel = 16
        /\ PatchBuffers.PatchInfo[p].EdgeCollapseFactors[2] = 4
        /\ PatchBuffers.PatchInfo[NeighborOf(p, 2)].EdgeCollapseFactors[1] = 1

\* C10: for two adjacent patches with levels from {4, 8, 16, 32, 64, 128}, the collapse
\* factor k of the finer one toward the coarser one satisfies
\* k * (coarser segments) = (finer segments), without remainder and without
\* truncation by the [1, 64] clamp.
C10_SeamInvariant ==
    \A p \in Patches : \A side \in Sides :
        LET n == NeighborOf(p, side)
            k == PatchBuffers.PatchInfo[p].EdgeCollapseFactors[side]
        IN  (/\ n # 0
             /\ PatchBuffers.PatchInfo[p].TessellationLevel \in {4, 8, 16, 32, 64, 128}
             /\ PatchBuffers.PatchInfo[n].TessellationLevel \in {4, 8, 16, 32, 64, 128}
             /\ PatchBuffers.PatchInfo[n].TessellationLevel
                    < PatchBuffers.PatchInfo[p].TessellationLevel) =>
                /\ k * SegmentsAlong(n, side) = SegmentsAlong(p, side)
                /\ k <= 64

\* C10 witness: the widest pair, level 128 beside level 4, stitched with k = 32
C10_Witness ==
    \E p \in Patches : \E side \in Sides :
        /\ NeighborOf(p, side) # 0
        /\ PatchBuffers.PatchInfo[p].TessellationLevel = 128
        /\ PatchBuffers.PatchInfo[NeighborOf(p, side)].TessellationLevel = 4
        /\ PatchBuffers.PatchInfo[p].EdgeCollapseFactors[side] = 32
        /\ SegmentsAlong(p, side) = 512
        /\ SegmentsAlong(NeighborOf(p, side), side) = 16

----------------------------------------------------------------------------
(* Claims on the first LOD tick of a component instance *)

\* C16: the first DistanceBased tick of a component instance enters the evaluator with
\* CurrentLODLevel and LastAppliedTessFactor set to the MaxTessellationFactor of that
\* instance, whatever other instances ticked before.
C16_FirstTickInitializes ==
    [][(/\ TickComponent
        /\ TessellationSettings.LODMode = "DistanceBased"
        /\ ~bTickedDistanceBased) =>
            /\ LastAppliedAtEntry = TessellationSettings.MaxTessellationFactor
            /\ CurrentLevelAtEntry = TessellationSettings.MaxTessellationFactor * LODScale]_vars

\* what the DistanceBased case of TickComponent does to CurrentLODLevel,
\* LastAppliedTessFactor and the dirty mark from the current state
DistanceBasedCase ==
    \E a \in 0 .. InterpDen, bFoundCamera \in BOOLEAN :
        LET Level == IF ~bInitialized
                     THEN TessellationSettings.MaxTessellationFactor * LODScale
                     ELSE CurrentLODLevel
            Applied == IF ~bInitialized
                       THEN TessellationSettings.MaxTessellationFactor
                       ELSE LastAppliedTessFactor
        IN  IF bFoundCamera
            THEN UpdateDistanceBasedLOD(Level, Applied, a)
            ELSE /\ CurrentLODLevel' = Level
                 /\ LastAppliedTessFactor' = Applied
                 /\ UNCHANGED bRenderStateDirty

\* C17: a tick in DensityTexture mode changes CurrentLODLevel, LastAppliedTessFactor
\* and the dirty mark as a tick in DistanceBased mode does from the same state.
C17_DensityRefinesDistance ==
    [][(TickComponent /\ TessellationSettings.LODMode = "DensityTexture") =>
            DistanceBasedCase]_vars

----------------------------------------------------------------------------
(* Specification SpecSelect: one component whose discrete-LOD arrays and patch arrays
   are the same, in the discrete or in the patch mode.  The plane is one
   patch centred at the component, the scale is 1 and the discrete hysteresis is 0,
   so that both selections see the distance of the camera to the component. *)

\* the distances of the camera of SpecSelect, around the thresholds 2 and 5
SelectDistances == {0, 1, 2, 3, 5, 6}

InitSelect ==
    /\ calcArg = <<0, 0>>
    /\ calcProduct = 0
    /\ calcResult = <<0, 0>>
    /\ GPUBuffers = InvalidBuffers
    /\ PatchBuffers = EmptyPatchBuffers
    /\ \E Levels \in PatchLevelInputs, Distances \in PatchDistanceInputs,
          Mode \in {"DistanceBasedDiscrete", "DistanceBasedPatches"} :
          InitComponent([DefaultSettings EXCEPT !.LODMode = Mode,
                                                !.bUseDistanceToBounds = FALSE,
                                                !.LODHysteresis = 0,
                                                !.DiscreteLODLevels = Levels,
                                                !.DiscreteLODDistances = Distances,
                                                !.PatchLevels = Levels,
                                                !.PatchDistances = Distances,
                                                !.PatchCountX = 1,
                                                !.PatchCountY = 1])
    /\ MaxScale = 1
    /\ \E D \in SelectDistances : CameraPosition = <<0, 0, D>>

NextSelect ==
    \/ TickComponent
    \/ CreateSceneProxy

SpecSelect == InitSelect /\ [][NextSelect]_vars

\* the patch pipeline ran for the camera position the discrete selection reads
PatchSelectedAtCamera ==
    /\ Len(PatchBuffers.PatchInfo) = 1
    /\ PatchBuffers.CameraPosition = CameraPosition
    /\ PatchBuffers.PatchInfo[1].WorldCenter = ComponentLocation

\* C18: for the same level and distance arrays, of any lengths, and the same distance,
\* CalculatePatchTessellationLevel and the selection of UpdateDiscreteLOD choose the
\* same tessellation factor.
C18_SameSelection ==
    PatchSelectedAtCamera =>
        PatchBuffers.PatchInfo[1].TessellationLevel =
            DiscreteTargetFactor(TessellationSettings)

----------------------------------------------------------------------------
(* Render graph of one pipeline execution.  A pass is [Name, Patch]: Patch is the
   index of the patch whose buffers the pass works on, 0 for the single mesh. *)

\* AddClearUAVPass on a dummy buffer
ClearUAVPass(PatchIndex) == [Name |-> "ClearUAV", Patch |-> PatchIndex]

\* DispatchVertexGeneration: three dummy buffers are cleared, then the compute pass
DispatchVertexGeneration(PatchIndex) ==
    <<ClearUAVPass(PatchIndex), ClearUAVPass(PatchIndex), ClearUAVPass(PatchIndex),
      [Name |-> "GPUTessellation.GenerateVertices", Patch |-> PatchIndex]>>

\* DispatchDisplacement
DispatchDisplacement(PatchIndex) ==
    <<[Name |-> "GPUTessellation.ApplyDisplacement", Patch |-> PatchIndex]>>

\* DispatchNormalCalculation: one dummy buffer is cleared, then the compute pass
DispatchNormalCalculation(PatchIndex) ==
    <<ClearUAVPass(PatchIndex),
      [Name |-> "GPUTessellation.CalculateNormals", Patch |-> PatchIndex]>>

\* DispatchIndexGeneration
DispatchIndexGeneration(PatchIndex) ==
    <<[Name |-> "GPUTessellation.GenerateIndices", Patch |-> PatchIndex]>>

\* a variant of the pipeline that calculates normals whatever the method is
PipelinePassesWithNormals(S, PatchIndex, PromotionName) ==
    DispatchVertexGeneration(PatchIndex)
        \o DispatchDisplacement(PatchIndex)
        \o DispatchNormalCalculation(PatchIndex)
        \o DispatchIndexGeneration(PatchIndex)
        \o <<[Name |-> PromotionName, Patch |-> PatchIndex]>>

\* the passes ExecuteTessellationPipeline (PromotionName "CreateGPUBufferSRVs") and
\* GenerateSinglePatch (PromotionName "CreatePatchBufferSRVs") add, in order
PipelinePasses(S, PatchIndex, PromotionName) ==
    DispatchVertexGeneration(PatchIndex)
        \o DispatchDisplacement(PatchIndex)
        \o (IF S.NormalCalculationMethod # "Disabled"
            THEN DispatchNormalCalculation(PatchIndex) ELSE <<>>)
        \o DispatchIndexGeneration(PatchIndex)
        \o <<[Name |-> PromotionName, Patch |-> PatchIndex]>>

\* what ExecuteTessellationPipeline writes into OutGPUBuffers while it builds the
\* graph: the counts and the resolution; the buffers stay what they were
BuildTessellationPipeline(OutGPUBuffers, S) ==
    LET Resolution == CalculateResolution(S.TessellationFactor)
    IN  [OutGPUBuffers EXCEPT
            !.VertexCount = Resolution[1] * Resolution[2],
            !.IndexCount  = (Resolution[1] - 1) * (Resolution[2] - 1) * 6,
            !.ResolutionX = Resolution[1],
            !.ResolutionY = Resolution[2],
            !.Factor      = S.TessellationFactor]

\* a variant of the promotion pass that replaces the position buffer only
PromotePositionBuffer(OutGPUBuffers) ==
    [OutGPUBuffers EXCEPT !.PositionBuffer = OutGPUBuffers.VertexCount]

\* the pass CreateGPUBufferSRVs or CreatePatchBufferSRVs, run by GraphBuilder.Execute:
\* the pooled buffers of the graph, of the sizes the graph was built with, replace the
\* buffers of the set
PromoteBuffers(OutGPUBuffers) ==
    [OutGPUBuffers EXCEPT !.PositionBuffer = OutGPUBuffers.VertexCount,
                          !.NormalBuffer   = OutGPUBuffers.VertexCount,
                          !.UVBuffer       = OutGPUBuffers.VertexCount,
                          !.IndexBufferRHI = OutGPUBuffers.IndexCount]

\* a variant of the loop that skips no patch
NoPatchSkipped(Patch) == FALSE

\* the loop of ExecutePatchTessellationPipeline skips the patch
PatchSkipped(Patch) == ~Patch.bVisible \/ Patch.TessellationLevel <= 0

\* what GenerateSinglePatch writes into OutPatchBuffers while it builds the graph
BuildSinglePatch(OutPatchBuffers, Patch) ==
    LET Resolution == CalculateResolution(Patch.TessellationLevel)
    IN  IF GenerateSinglePatchAborts(Patch)
        THEN InvalidBuffers
        ELSE [OutPatchBuffers EXCEPT
                 !.VertexCount = Resolution[1] * Resolution[2],
                 !.IndexCount  = (Resolution[1] - 1) * (Resolution[2] - 1) * 6,
                 !.ResolutionX = Resolution[1],
                 !.ResolutionY = Resolution[2],
                 !.Factor      = Patch.TessellationLevel]

\* what ExecutePatchTessellationPipeline writes into OutPatchBuffers while it builds
\* the graph: SetNum keeps the buffer sets the array held, the patch info and the
\* counts are assigned, and the loop resets or rebuilds each set
BuildPatchTessellationPipeline(OutPatchBuffers, S, Scale, Camera, ViewFrustum, PatchCountX, PatchCountY) ==
    LET PatchInfo == ComputePatchEdgeTransitions(PatchCountX, PatchCountY,
                        CalculatePatchInfo(S, Scale, Camera, ViewFrustum,
                                           PatchCountX, PatchCountY))
        Held(i) == IF i <= Len(OutPatchBuffers.PatchBuffers)
                   THEN OutPatchBuffers.PatchBuffers[i] ELSE InvalidBuffers
    IN  [PatchBuffers |-> [i \in 1 .. PatchCountX * PatchCountY |->
                              IF PatchSkipped(PatchInfo[i])
                              THEN InvalidBuffers
                              ELSE BuildSinglePatch(Held(i), PatchInfo[i])],
         PatchInfo    |-> PatchInfo,
         PatchCountX  |-> PatchCountX,
         PatchCountY  |-> PatchCountY,
         CameraPosition |-> Camera]

\* the passes the loop of ExecutePatchTessellationPipeline adds from patch i on
RECURSIVE PatchPipelinePasses(_, _, _)
PatchPipelinePasses(S, PatchInfo, i) ==
    IF i > Len(PatchInfo) THEN <<>>
    ELSE (IF PatchSkipped(PatchInfo[i]) \/ GenerateSinglePatchAborts(PatchInfo[i])
          THEN <<>>
          ELSE PipelinePasses(S, i, "CreatePatchBufferSRVs"))
         \o PatchPipelinePasses(S, PatchInfo, i + 1)

\* the patches a promotion pass of the graph works on
PromotedPatches(Passes) ==
    {Passes[k].Patch : k \in {j \in 1 .. Len(Passes) :
                                 Passes[j].Name = "CreatePatchBufferSRVs"}}

\* GraphBuilder.Execute on the patch buffers: every promotion pass of the graph runs
ExecutePatchGraph(OutPatchBuffers, Passes) ==
    [OutPatchBuffers EXCEPT !.PatchBuffers =
        [i \in 1 .. Len(OutPatchBuffers.PatchBuffers) |->
            IF i \in PromotedPatches(Passes)
            THEN PromoteBuffers(OutPatchBuffers.PatchBuffers[i])
            ELSE OutPatchBuffers.PatchBuffers[i]]]

\* FGPUTessellationPatchBuffers::IsValid
PatchBuffersValid(b) ==
    /\ Len(b.PatchBuffers) > 0
    /\ Len(b.PatchBuffers) = Len(b.PatchInfo)

\* FGPUTessellationVertexFactory after SetBuffers on the views of Buffers and
\* InitResource
InitializedFactory(Buffers) ==
    [bNull |-> FALSE, bInitialized |-> TRUE, Buffers |-> Buffers.PositionBuffer]

\* InitializePatchVertexFactories: the old factories are released and deleted, and a
\* factory is created for every valid buffer set
InitializePatchVertexFactories(b) ==
    [i \in 1 .. Len(b.PatchBuffers) |->
        IF IsValid(b.PatchBuffers[i])
        THEN InitializedFactory(b.PatchBuffers[i])
        ELSE NullFactory]

----------------------------------------------------------------------------
(* Scene proxy: the game thread enqueues render commands, the rendering thread runs
   them one after the other in the order of their enqueuing, and collects the mesh
   batches of the proxy between two commands.  A command that runs a pipeline goes
   through three steps: the graph is built, GraphBuilder.Execute runs its passes, and
   the vertex factories and bMeshValid are brought up to date. *)

\* the render commands that may wait at one time
MaxQueued == 3

\* EffectiveSettings of the scene proxy constructor
EffectiveSettings ==
    [TessellationSettings EXCEPT !.TessellationFactor = EffectiveTessellationFactor]

\* the component has room to enqueue n commands
QueueHasRoom(n) == Len(RenderCommands) + n <= MaxQueued

\* the component and the rendering thread leave the LOD state alone
UnchangedByRendering ==
    UNCHANGED <<resVars, CurrentLODLevel, LastAppliedTessFactor, bInitialized, MaxScale,
                TargetTessFactor, bTickedDistanceBased>>

\* CreateRenderState_Concurrent: CreateSceneProxy constructs the scene proxy, whose
\* constructor copies the settings and enqueues the generation of the first mesh;
\* the scene then enqueues the addition of the proxy.  A component has one proxy at
\* a time: the proxy it had before was destroyed on the rendering thread.
CreateRenderState ==
    /\ ~SceneProxy
    /\ ProxyState \in {"none", "destroyed"}
    /\ TessellationSettings.TessellationFactor > 0
    /\ QueueHasRoom(2)
    /\ \E bHasCameraManager \in BOOLEAN :
        LET bPatchMode == TessellationSettings.LODMode = "DistanceBasedPatches"
        IN  /\ Settings' = TessellationSettings
            /\ bUsePatchMode' = bPatchMode
            /\ RenderCommands' = RenderCommands \o
                  <<[Name |-> IF bPatchMode THEN "GeneratePatchedMesh"
                                            ELSE "GenerateTessellatedMesh",
                     EffectiveSettings |-> EffectiveSettings,
                     CameraPosition |-> ProxyCameraPosition(bHasCameraManager),
                     PlayerCameraLocation |-> PlayerCameraLocation(bHasCameraManager),
                     SettingsAtDispatch |-> EffectiveSettings,
                     ComponentSettings |-> TessellationSettings],
                    [Name |-> "AddPrimitive"]>>
    /\ bMeshValid' = FALSE
    /\ GPUBuffers' = InvalidBuffers
    /\ PatchBuffers' = EmptyPatchBuffers
    /\ VertexFactory' = UninitializedFactory
    /\ PatchVertexFactories' = <<>>
    /\ SceneProxy' = TRUE
    /\ ProxyState' = "created"
    /\ MeshBatches' = {}
    /\ ReleaseOrder' = <<>>
    /\ bRenderStateDirty' = FALSE
    /\ UNCHANGED <<TessellationSettings, CameraPosition, lastTick, LastCameraPosition,
                   LastPatchCountX, LastPatchCountY, RenderCommand, GraphBuilder>>
    /\ UnchangedByRendering

\* DestroyRenderState_Concurrent: the scene enqueues the removal and the deletion of
\* the proxy
DestroyRenderState ==
    /\ SceneProxy
    /\ QueueHasRoom(1)
    /\ SceneProxy' = FALSE
    /\ RenderCommands' = Append(RenderCommands, [Name |-> "DestroyProxy"])
    /\ UNCHANGED <<TessellationSettings, CameraPosition, lastTick, bRenderStateDirty,
                   GPUBuffers, patchVars, Settings, bUsePatchMode, bMeshValid,
                   VertexFactory, PatchVertexFactories, ProxyState, RenderCommand,
                   GraphBuilder, MeshBatches, ReleaseOrder>>
    /\ UnchangedByRendering

\* the values of NormalCalculationMethod the settings are switched between
NormalMethods == {"Disabled", "FiniteDifference"}

\* UpdateSettings(NewSettings), NewSettings being the settings with another
\* NormalCalculationMethod
UpdateNormalMethod ==
    \E NewMethod \in NormalMethods :
        /\ NewMethod # TessellationSettings.NormalCalculationMethod
        /\ TessellationSettings' =
              [TessellationSettings EXCEPT !.NormalCalculationMethod = NewMethod]
        /\ bRenderStateDirty' = TRUE
        /\ lastTick' = "none"
        /\ UNCHANGED <<CameraPosition, GPUBuffers, patchVars, renderVars>>
        /\ UnchangedByRendering

\* the camera positions of the patch updates: at, beside and far from the component
RenderCameraPositions == {<<0, 0, 1>>, <<6, 0, 1>>, <<0, 0, 9>>}

\* the patch counts or the camera differ from those of the last regeneration
PatchUpdateDue(CameraPos) ==
    \/ LastPatchCountX # TessellationSettings.PatchCountX
    \/ LastPatchCountY # TessellationSettings.PatchCountY
    \/ MovedBeyondThreshold(DistSquared(CameraPos, LastCameraPosition), MaxScale)

\* the branch of UpdatePatchBasedLOD taken when the patch counts changed or the camera
\* moved beyond the threshold, and SendRenderDynamicData_Concurrent, which it calls
SendRenderDynamicData_Concurrent ==
    /\ TessellationSettings.LODMode = "DistanceBasedPatches"
    /\ QueueHasRoom(1)
    /\ \E CameraPos \in RenderCameraPositions \cup {CameraPosition} :
        /\ PatchUpdateDue(CameraPos)
        /\ CameraPosition' = CameraPos
        /\ LastCameraPosition' = CameraPos
        /\ RenderCommands' =
              IF SceneProxy
              THEN Append(RenderCommands,
                          [Name |-> "SendGPUTessellationDynamicData",
                           CameraPosition |-> CameraPos,
                           SettingsAtDispatch |-> Settings,
                           ComponentSettings |-> TessellationSettings])
              ELSE RenderCommands
    /\ LastPatchCountX' = TessellationSettings.PatchCountX
    /\ LastPatchCountY' = TessellationSettings.PatchCountY
    /\ UNCHANGED <<TessellationSettings, lastTick, bRenderStateDirty, GPUBuffers,
                   PatchBuffers, Settings, bUsePatchMode, bMeshValid, VertexFactory,
                   PatchVertexFactories, SceneProxy, ProxyState, RenderCommand,
                   GraphBuilder, MeshBatches, ReleaseOrder>>
    /\ UnchangedByRendering

\* the game thread leaves these alone while the rendering thread works
UnchangedByRenderThread ==
    /\ UNCHANGED <<TessellationSettings, CameraPosition, lastTick, bRenderStateDirty,
                   LastCameraPosition, LastPatchCountX, LastPatchCountY, SceneProxy>>
    /\ UnchangedByRendering

\* the command at the head of the queue, which the rendering thread begins next
NextRenderCommand ==
    IF RenderCommand.Step = "idle" /\ RenderCommands # <<>>
    THEN Head(RenderCommands) ELSE [Name |-> "none"]

\* the command the scene enqueued on the addition of the primitive
AddPrimitive ==
    /\ NextRenderCommand.Name = "AddPrimitive"
    /\ RenderCommands' = Tail(RenderCommands)
    /\ ProxyState' = "inScene"
    /\ UNCHANGED <<GPUBuffers, PatchBuffers, Settings, bUsePatchMode, bMeshValid,
                   VertexFactory, PatchVertexFactories, RenderCommand, GraphBuilder,
                   MeshBatches, ReleaseOrder>>
    /\ UnchangedByRenderThread

\* the destructor of the scene proxy, in the order of its statements
DestroyProxy ==
    /\ NextRenderCommand.Name = "DestroyProxy"
    /\ RenderCommands' = Tail(RenderCommands)
    /\ GPUBuffers' = InvalidBuffers
    /\ PatchBuffers' = EmptyPatchBuffers
    /\ VertexFactory' = [VertexFactory EXCEPT !.bInitialized = FALSE]
    /\ PatchVertexFactories' = <<>>
    /\ ReleaseOrder' = <<"GPUBuffers", "GPUPatchBuffers", "VertexFactory",
                         "PatchVertexFactories">>
    /\ ProxyState' = "destroyed"
    /\ MeshBatches' = {}
    /\ UNCHANGED <<Settings, bUsePatchMode, bMeshValid, RenderCommand, GraphBuilder>>
    /\ UnchangedByRenderThread

\* a variant in which a command reads the settings of the component when it runs
SettingsOfComponent(Command) == TessellationSettings

\* the settings the pipeline of a command runs with: the constructor's commands hold
\* EffectiveSettings by value, UpdatePatchesWithCamera reads SceneProxy->Settings
SettingsOfCommand(Command) ==
    IF Command.Name = "SendGPUTessellationDynamicData"
    THEN Settings
    ELSE Command.EffectiveSettings

\* the command as the rendering thread holds it while it runs
RunningCommand(Command, Step) ==
    [Name |-> Command.Name, Step |-> Step,
     Settings |-> SettingsOfCommand(Command),
     SettingsAtDispatch |-> Command.SettingsAtDispatch,
     ComponentSettings |-> Command.ComponentSettings]

\* GenerateTessellatedMesh, up to GraphBuilder.Execute: ExecuteTessellationPipeline
\* builds the graph
BeginGenerateTessellatedMesh ==
    /\ NextRenderCommand.Name = "GenerateTessellatedMesh"
    /\ RenderCommands' = Tail(RenderCommands)
    /\ LET Running == RunningCommand(NextRenderCommand, "built")
       IN  /\ RenderCommand' = Running
           /\ GPUBuffers' = BuildTessellationPipeline(GPUBuffers, Running.Settings)
           /\ GraphBuilder' = PipelinePasses(Running.Settings, 0, "CreateGPUBufferSRVs")
    /\ UNCHANGED <<PatchBuffers, Settings, bUsePatchMode, bMeshValid, VertexFactory,
                   PatchVertexFactories, ProxyState, MeshBatches, ReleaseOrder>>
    /\ UnchangedByRenderThread

\* GeneratePatchedMesh, or SendGPUTessellationDynamicData with the
\* UpdatePatchesWithCamera that UpdateDynamicData_RenderThread runs in place, up to
\* GraphBuilder.Execute: ExecutePatchTessellationPipeline builds the graph.  The
\* callers pass the view frustum; the scene proxy passes nullptr.
BeginPatchedMesh(ViewFrusta) ==
    /\ NextRenderCommand.Name \in {"GeneratePatchedMesh", "SendGPUTessellationDynamicData"}
    /\ RenderCommands' = Tail(RenderCommands)
    /\ IF NextRenderCommand.Name = "SendGPUTessellationDynamicData" /\ ~bUsePatchMode
       THEN UNCHANGED <<PatchBuffers, RenderCommand, GraphBuilder>>
       ELSE \E ViewFrustum \in ViewFrusta :
              LET Running == RunningCommand(NextRenderCommand, "built")
                  S == Running.Settings
                  Built == BuildPatchTessellationPipeline(
                              PatchBuffers, S, MaxScale, NextRenderCommand.CameraPosition,
                              ViewFrustum, S.PatchCountX, S.PatchCountY)
              IN  /\ RenderCommand' = Running
                  /\ PatchBuffers' = Built
                  /\ GraphBuilder' = PatchPipelinePasses(S, Built.PatchInfo, 1)
    /\ UNCHANGED <<GPUBuffers, Settings, bUsePatchMode, bMeshValid, VertexFactory,
                   PatchVertexFactories, ProxyState, MeshBatches, ReleaseOrder>>
    /\ UnchangedByRenderThread

\* GraphBuilder.Execute of the running command
GraphBuilderExecute ==
    /\ RenderCommand.Step = "built"
    /\ RenderCommand' = [RenderCommand EXCEPT !.Step = "executed"]
    /\ IF RenderCommand.Name = "GenerateTessellatedMesh"
       THEN /\ GPUBuffers' = PromoteBuffers(GPUBuffers)
            /\ UNCHANGED PatchBuffers
       ELSE /\ PatchBuffers' = ExecutePatchGraph(PatchBuffers, GraphBuilder)
            /\ UNCHANGED GPUBuffers
    /\ UNCHANGED <<Settings, bUsePatchMode, bMeshValid, VertexFactory,
                   PatchVertexFactories, ProxyState, RenderCommands, GraphBuilder,
                   MeshBatches, ReleaseOrder>>
    /\ UnchangedByRenderThread

\* the rest of the running command: the vertex factories and bMeshValid
FinishRenderCommand ==
    /\ RenderCommand.Step = "executed"
    /\ RenderCommand' = NoRenderCommand
    /\ GraphBuilder' = <<>>
    /\ IF RenderCommand.Name = "GenerateTessellatedMesh"
       THEN /\ bMeshValid' = (bMeshValid \/ IsValid(GPUBuffers))
            /\ VertexFactory' = IF IsValid(GPUBuffers)
                                THEN InitializedFactory(GPUBuffers) ELSE VertexFactory
            /\ UNCHANGED PatchVertexFactories
       ELSE /\ PatchVertexFactories' = InitializePatchVertexFactories(PatchBuffers)
            /\ bMeshValid' = PatchBuffersValid(PatchBuffers)
            /\ UNCHANGED VertexFactory
    /\ UNCHANGED <<GPUBuffers, PatchBuffers, Settings, bUsePatchMode, ProxyState,
                   RenderCommands, MeshBatches, ReleaseOrder>>
    /\ UnchangedByRenderThread

\* the mesh batch RenderSingleMesh or RenderPatches hands to the collector for the
\* buffer set Buffers: Patch is 0 for the single mesh
MeshBatch(PatchIndex, Buffers, Factory, bVisible) ==
    [Patch          |-> PatchIndex,
     Buffers        |-> Buffers,
     NumPrimitives  |-> Buffers.IndexCount \div 3,
     MaxVertexIndex |-> Buffers.VertexCount - 1,
     VertexFactory  |-> Factory,
     bVisible       |-> bVisible]

\* RenderSingleMesh, for one visible view
RenderSingleMesh ==
    IF ~IsValid(GPUBuffers)
    THEN {}
    ELSE {MeshBatch(0, GPUBuffers, VertexFactory, TRUE)}

\* a variant of the patch loop that draws every patch
AnyPatchDrawn(i) == TRUE

\* the patch loop of RenderPatches reaches the mesh batch of patch i
PatchDrawn(i) ==
    /\ PatchBuffers.PatchInfo[i].bVisible
    /\ IsValid(PatchBuffers.PatchBuffers[i])
    /\ i <= Len(PatchVertexFactories)
    /\ ~PatchVertexFactories[i].bNull
    /\ PatchVertexFactories[i].bInitialized

\* the vertex factory of patch i, or a null one past the end of the array
PatchFactory(i) ==
    IF i <= Len(PatchVertexFactories) THEN PatchVertexFactories[i] ELSE NullFactory

\* RenderPatches, for one visible view
RenderPatches ==
    IF ~PatchBuffersValid(PatchBuffers)
    THEN {}
    ELSE {MeshBatch(i, PatchBuffers.PatchBuffers[i], PatchFactory(i),
                    PatchBuffers.PatchInfo[i].bVisible) :
            i \in {j \in 1 .. Len(PatchBuffers.PatchBuffers) : PatchDrawn(j)}}

\* a variant in which mesh batches are collected while a render command runs
RenderPassAnytime == TRUE

\* the renderer collects mesh batches on the rendering thread, between two commands
RenderPassMayRun == RenderCommand.Step = "idle"

\* GetDynamicMeshElements of a proxy that is in the scene and has a material
GetDynamicMeshElements ==
    /\ RenderPassMayRun
    /\ ProxyState = "inScene"
    /\ MeshBatches' = IF ~bMeshValid THEN {}
                      ELSE IF bUsePatchMode THEN RenderPatches
                      ELSE RenderSingleMesh
    /\ UNCHANGED <<GPUBuffers, PatchBuffers, Settings, bUsePatchMode, bMeshValid,
                   VertexFactory, PatchVertexFactories, ProxyState, RenderCommands,
                   RenderCommand, GraphBuilder, ReleaseOrder>>
    /\ UnchangedByRenderThread

----------------------------------------------------------------------------
(* Specification SpecRender: a component of scale 1 and its scene proxy, in single-mesh
   or in patch mode, with the view frustum the scene proxy passes *)

InitRender ==
    /\ calcArg = <<0, 0>>
    /\ calcProduct = 0
    /\ calcResult = <<0, 0>>
    /\ GPUBuffers = InvalidBuffers
    /\ PatchBuffers = EmptyPatchBuffers
    /\ \E Mode \in {"Disabled", "DistanceBasedPatches"}, Method \in NormalMethods :
          InitComponent([DefaultSettings EXCEPT !.LODMode = Mode,
                                                !.NormalCalculationMethod = Method])
    /\ MaxScale = 1
    /\ CameraPosition = ZeroVector

NextRender ==
    \/ CreateRenderState
    \/ DestroyRenderState
    \/ UpdateNormalMethod
    \/ SendRenderDynamicData_Concurrent
    \/ AddPrimitive
    \/ DestroyProxy
    \/ BeginGenerateTessellatedMesh
    \/ BeginPatchedMesh({NullFrustum})
    \/ GraphBuilderExecute
    \/ FinishRenderCommand
    \/ GetDynamicMeshElements

SpecRender == InitRender /\ [][NextRender]_vars

----------------------------------------------------------------------------
(* Specification SpecPipeline: one scene proxy whose patch pipelines are called with
   a view frustum, given by the patches whose bounds it intersects *)

FrustumInputs ==
    {NullFrustum} \cup {[bNull |-> FALSE, Boxes |-> B] : B \in SUBSET {1, 2}}

NextPipeline ==
    \/ CreateRenderState
    \/ SendRenderDynamicData_Concurrent
    \/ AddPrimitive
    \/ BeginGenerateTessellatedMesh
    \/ BeginPatchedMesh(FrustumInputs)
    \/ GraphBuilderExecute
    \/ FinishRenderCommand
    \/ GetDynamicMeshElements

SpecPipeline == InitRender /\ [][NextPipeline]_vars

----------------------------------------------------------------------------
(* Claims on the scene proxy (SpecRender, SpecPipeline) *)

\* the buffers of a set are the ones its counts were written for
WholeBufferSet(b) ==
    /\ IsValid(b)
    /\ b.PositionBuffer = b.VertexCount
    /\ b.NormalBuffer = b.VertexCount
    /\ b.UVBuffer = b.VertexCount
    /\ b.IndexBufferRHI = b.IndexCount
    /\ b.VertexCount = b.ResolutionX * b.ResolutionY

\* every buffer set the scene proxy holds is invalid or whole, and every patch's set
\* is the one of the level in its patch info
ProxyHoldsWholeSets ==
    /\ GPUBuffers = InvalidBuffers \/ WholeBufferSet(GPUBuffers)
    /\ \A i \in 1 .. Len(PatchBuffers.PatchBuffers) :
          \/ PatchBuffers.PatchBuffers[i] = InvalidBuffers
          \/ /\ WholeBufferSet(PatchBuffers.PatchBuffers[i])
             /\ PatchBuffers.PatchBuffers[i].Factor =
                   PatchBuffers.PatchInfo[i].TessellationLevel

C12_BatchesReferenceValidSets ==
    \A m \in MeshBatches :
        /\ IsValid(m.Buffers)
        /\ m.Patch # 0 => /\ m.bVisible
                          /\ ~m.VertexFactory.bNull
                          /\ m.VertexFactory.bInitialized

\* C12 witness: a render pass in patch mode drew one patch and left out a patch
\* whose buffer set is invalid
C12_Witness ==
    /\ bUsePatchMode
    /\ RenderCommand.Step = "idle"
    /\ MeshBatches # {}
    /\ MeshBatches = RenderPatches
    /\ \E i \in 1 .. Len(PatchBuffers.PatchBuffers) :
          /\ ~IsValid(PatchBuffers.PatchBuffers[i])
          /\ \A m \in MeshBatches : m.Patch # i

\* a patch command has built its graph, or has executed it
PatchPipelineRan ==
    /\ RenderCommand.Step \in {"built", "executed"}
    /\ RenderCommand.Name \in {"GeneratePatchedMesh", "SendGPUTessellationDynamicData"}

\* the generation of the patch is skipped: it is culled, its level is not positive,
\* its resolution is below 2x2, a count is not positive, or its UV rectangle is
\* malformed
GenerationSkipped(Patch) ==
    LET Resolution == CalculateResolution(Patch.TessellationLevel)
    IN  \/ ~Patch.bVisible
        \/ Patch.TessellationLevel <= 0
        \/ Resolution[1] < 2 \/ Resolution[2] < 2
        \/ Resolution[1] * Resolution[2] <= 0
        \/ (Resolution[1] - 1) * (Resolution[2] - 1) * 6 <= 0
        \/ MalformedUV(Patch)

\* the graph holds a pass of patch i
PatchHasPass(i) == \E k \in 1 .. Len(GraphBuilder) : GraphBuilder[k].Patch = i

\* C13: in a run of the patch pipeline a patch whose generation is skipped has its
\* own buffer set reset to invalid and no pass in the graph, whatever the set held
\* before; every other patch of the grid is generated in the same run: its passes
\* are in the graph, and once the graph has executed its set is whole, at the level
\* of its patch info.
C13_OnlySkippedPatchReset ==
    PatchPipelineRan =>
        \A i \in 1 .. Len(PatchBuffers.PatchInfo) :
            IF GenerationSkipped(PatchBuffers.PatchInfo[i])
            THEN /\ PatchBuffers.PatchBuffers[i] = InvalidBuffers
                 /\ ~PatchHasPass(i)
            ELSE /\ PatchHasPass(i)
                 /\ PatchBuffers.PatchBuffers[i].VertexCount > 0
                 /\ RenderCommand.Step = "executed" =>
                       /\ WholeBufferSet(PatchBuffers.PatchBuffers[i])
                       /\ PatchBuffers.PatchBuffers[i].Factor =
                             PatchBuffers.PatchInfo[i].TessellationLevel

\* C13 witness: a regeneration has executed in which a patch that the last render
\* pass still drew is culled and reset, while another patch of the grid is whole
C13_Witness ==
    /\ PatchPipelineRan
    /\ RenderCommand.Name = "SendGPUTessellationDynamicData"
    /\ RenderCommand.Step = "executed"
    /\ \E i, j \in 1 .. Len(PatchBuffers.PatchInfo) :
          /\ ~PatchBuffers.PatchInfo[i].bVisible
          /\ PatchBuffers.PatchBuffers[i] = InvalidBuffers
          /\ \E m \in MeshBatches : m.Patch = i
          /\ PatchBuffers.PatchInfo[j].bVisible
          /\ WholeBufferSet(PatchBuffers.PatchBuffers[j])

\* some of the position, normal, UV and index buffers are present, others absent
PartiallyPopulated(b) ==
    LET Present == {b.PositionBuffer # 0, b.NormalBuffer # 0, b.UVBuffer # 0,
                    b.IndexBufferRHI # 0}
    IN  Present = {TRUE, FALSE}

StagesOf(p) ==
    LET Stage(Pass) == Pass.Patch = p /\ Pass.Name # "ClearUAV"
        Stages == SelectSeq(GraphBuilder, Stage)
    IN  [k \in 1 .. Len(Stages) |-> Stages[k].Name]

\* the stage order of one pipeline execution run with the settings S
StageOrder(S, PromotionName) ==
    <<"GPUTessellation.GenerateVertices", "GPUTessellation.ApplyDisplacement">>
        \o (IF S.NormalCalculationMethod # "Disabled"
            THEN <<"GPUTessellation.CalculateNormals">> ELSE <<>>)
        \o <<"GPUTessellation.GenerateIndices", PromotionName>>

\* C15: in every pipeline execution, of the single mesh and of each patch, the passes
\* are added in the order vertex generation, displacement, normal calculation, index
\* generation, buffer promotion; the normal pass is there exactly if
\* NormalCalculationMethod is not Disabled, and the one promotion pass comes last.
C15_FixedStageOrder ==
    RenderCommand.Step \in {"built", "executed"} =>
        IF RenderCommand.Name = "GenerateTessellatedMesh"
        THEN /\ StagesOf(0) = StageOrder(RenderCommand.Settings, "CreateGPUBufferSRVs")
             /\ \A k \in 1 .. Len(GraphBuilder) : GraphBuilder[k].Patch = 0
        ELSE \A p \in 1 .. Len(PatchBuffers.PatchInfo) :
                \/ StagesOf(p) = StageOrder(RenderCommand.Settings,
                                            "CreatePatchBufferSRVs")
                \/ /\ StagesOf(p) = <<>>
                   /\ GenerationSkipped(PatchBuffers.PatchInfo[p])

\* C15 witness: the graph of a patch pipeline run with normals disabled holds the
\* four remaining stages of both patches
C15_Witness ==
    /\ RenderCommand.Step = "built"
    /\ RenderCommand.Settings.NormalCalculationMethod = "Disabled"
    /\ Len(StagesOf(1)) = 4
    /\ Len(StagesOf(2)) = 4

\* the place of a resource in the order the destructor released them
ReleasedAt(Resource) ==
    CHOOSE k \in 1 .. Len(ReleaseOrder) : ReleaseOrder[k] = Resource

\* C19: on teardown of the scene proxy the resources are released in the reverse
\* order of their acquisition: the vertex factories, bound to the buffer views last,
\* are released before the buffer sets they were built on.
C19_ReverseOrderRelease ==
    ReleaseOrder # <<>> =>
        /\ ReleasedAt("VertexFactory") < ReleasedAt("GPUBuffers")
        /\ ReleasedAt("PatchVertexFactories") < ReleasedAt("GPUPatchBuffers")

\* the settings without the tessellation factor, which the constructor of the proxy
\* replaces by the factor the LOD applied last
WithoutFactor(S) == [S EXCEPT !.TessellationFactor = 0]

----------------------------------------------------------------------------
(* Specification SpecGrid: a component in patch mode whose plane is cut into up to
   MaxPatchCount x MaxPatchCount patches *)

\* the largest patch count along an axis
MaxPatchCount == 8

\* a plane size that every patch count up to MaxPatchCount divides into whole halves
GridPlaneSize == 1680

InitGrid ==
    /\ calcArg = <<0, 0>>
    /\ calcProduct = 0
    /\ calcResult = <<0, 0>>
    /\ GPUBuffers = InvalidBuffers
    /\ PatchBuffers = EmptyPatchBuffers
    /\ \E CountX \in 1 .. MaxPatchCount, CountY \in 1 .. MaxPatchCount :
          InitComponent([DefaultSettings EXCEPT !.LODMode = "DistanceBasedPatches",
                                                !.PlaneSizeX = GridPlaneSize,
                                                !.PlaneSizeY = GridPlaneSize,
                                                !.PatchCountX = CountX,
                                                !.PatchCountY = CountY])
    /\ MaxScale = 1
    /\ CameraPosition \in PatchCameraPositions

NextGrid ==
    \/ CreateSceneProxy
    \/ TickComponent

SpecGrid == InitGrid /\ [][NextGrid]_vars

\* the patch CalculatePatchInfo stored for the grid position (X, Y)
PatchAt(X, Y) == PatchBuffers.PatchInfo[Y * PatchBuffers.PatchCountX + X + 1]

\* the float nearest to X / PatchCount
NearestFloat(X, PatchCount) == RoundToFloat(X * FloatOne, PatchCount)

\* along one axis, the rectangles of the patches at 0 .. PatchCount - 1 tile [0, 1]:
\* each ends, in float arithmetic, where the next begins, and the last ends at 1
TilesUnitInterval(Offset(_), Size(_), PatchCount) ==
    \A X \in 0 .. PatchCount - 1 :
        RoundToFloat(Offset(X) + Size(X), 1) =
            IF X + 1 < PatchCount THEN Offset(X + 1) ELSE FloatOne

\* C21: CalculatePatchInfo returns PatchCountX * PatchCountY patches, patch (x, y) at
\* index y * PatchCountX + x with UV offset (x / PatchCountX, y / PatchCountY) and UV
\* size (1 / PatchCountX, 1 / PatchCountY); every offset is in [0, 1], every size in
\* (0, 1], and the patches tile the unit UV square without gap or overlap.
C21_PatchesTileUnitSquare ==
    PatchBuffers.PatchInfo # <<>> =>
        LET CountX == PatchBuffers.PatchCountX
            CountY == PatchBuffers.PatchCountY
        IN  /\ Len(PatchBuffers.PatchInfo) = CountX * CountY
            /\ \A X \in 0 .. CountX - 1, Y \in 0 .. CountY - 1 :
                  /\ PatchAt(X, Y).PatchIndexX = X
                  /\ PatchAt(X, Y).PatchIndexY = Y
                  /\ PatchAt(X, Y).PatchOffset =
                        <<NearestFloat(X, CountX), NearestFloat(Y, CountY)>>
                  /\ PatchAt(X, Y).PatchSize =
                        <<NearestFloat(1, CountX), NearestFloat(1, CountY)>>
                  /\ ~MalformedUV(PatchAt(X, Y))
            /\ \A Y \in 0 .. CountY - 1 :
                  TilesUnitInterval(LAMBDA X : PatchAt(X, Y).PatchOffset[1],
                                    LAMBDA X : PatchAt(X, Y).PatchSize[1], CountX)
            /\ \A X \in 0 .. CountX - 1 :
                  TilesUnitInterval(LAMBDA Y : PatchAt(X, Y).PatchOffset[2],
                                    LAMBDA Y : PatchAt(X, Y).PatchSize[2], CountY)

----------------------------------------------------------------------------
(* Claims on the dispatches, the reported statistics and the selections *)

\* the GroupCount of DispatchVertexGeneration along one axis of the resolution R
VertexGenerationGroupCount(R) == DivideAndRoundUp(R, ThreadGroupSize)

\* the GroupCount of DispatchIndexGeneration along one axis of the resolution R
IndexGenerationGroupCount(R) == DivideAndRoundUp(R - 1, ThreadGroupSize)

\* C22: for every resolution W x H that CalculateResolution returns, the 8 x 8 thread
\* groups of the vertex generation cover W x H and those of the index generation
\* cover (W - 1) x (H - 1) exactly, without a partial group at the boundary.
C22_WholeThreadGroups ==
    calcResult # <<0, 0>> =>
        \A axis \in 1 .. 2 :
            /\ VertexGenerationGroupCount(calcResult[axis]) * ThreadGroupSize =
                  calcResult[axis]
            /\ IndexGenerationGroupCount(calcResult[axis]) * ThreadGroupSize =
                  calcResult[axis] - 1

\* C23: in discrete LOD mode with an empty DiscreteLODLevels the selected target factor
\* is 4, the lowest level: with a hysteresis of 0 it is the factor applied by the tick.
C23_EmptyLevelsSelectLowest ==
    (/\ lastTick = "DistanceBasedDiscrete"
     /\ TessellationSettings.DiscreteLODLevels = <<>>
     /\ TessellationSettings.LODHysteresis = 0) =>
        LastAppliedTessFactor = 4

\* the generation commands of a scene proxy constructor that are in the queue
QueuedGenerations ==
    {RenderCommands[k] : k \in {j \in 1 .. Len(RenderCommands) :
        RenderCommands[j].Name \in {"GeneratePatchedMesh", "GenerateTessellatedMesh"}}}

\* C24: the scene proxy constructor uses the fallback camera position only when no
\* camera position is available; a non-zero position of the player camera is the one
\* the first mesh or the first patches are generated with.
C24_FallbackOnlyWithoutCamera ==
    \A Command \in QueuedGenerations :
        Command.PlayerCameraLocation # ZeroVector =>
            Command.CameraPosition = Command.PlayerCameraLocation

----------------------------------------------------------------------------
(* Specification SpecLevel: a component in patch mode with one patch, PatchLevels
   ordered from finest to coarsest and PatchDistances sorted ascending, of any
   lengths *)

\* the PatchLevels arrays ordered from finest to coarsest
OrderedLevelInputs ==
    {Levels \in PatchLevelInputs :
        \A i, j \in 1 .. Len(Levels) :
            i <= j => ConvertPatchLevelToTessellation(Levels[i])
                        >= ConvertPatchLevelToTessellation(Levels[j])}

\* the PatchDistances arrays sorted ascending, with up to one entry more than PatchLevels
SortedDistanceInputs ==
    {Distances \in UNION {[1 .. n -> {2, 5, 10}] : n \in 0 .. MaxPatchEntries + 1} :
        \A i, j \in 1 .. Len(Distances) : i < j => Distances[i] < Distances[j]}

\* the heights of the camera above the patch
LevelCameraHeights == {0, 1, 2, 3, 5, 6, 10, 11}

InitLevel ==
    /\ calcArg = <<0, 0>>
    /\ calcProduct = 0
    /\ calcResult = <<0, 0>>
    /\ GPUBuffers = InvalidBuffers
    /\ PatchBuffers = EmptyPatchBuffers
    /\ \E Levels \in OrderedLevelInputs, Distances \in SortedDistanceInputs :
          InitComponent([DefaultSettings EXCEPT !.LODMode = "DistanceBasedPatches",
                                                !.PatchLevels = Levels,
                                                !.PatchDistances = Distances,
                                                !.PatchCountX = 1,
                                                !.PatchCountY = 1])
    /\ MaxScale = 1
    /\ \E D \in LevelCameraHeights : CameraPosition = <<0, 0, D>>

NextLevel ==
    \/ TickComponent
    \/ CreateSceneProxy

SpecLevel == InitLevel /\ [][NextLevel]_vars

\* C25: with PatchDistances sorted ascending and PatchLevels ordered from finest to
\* coarsest, of any lengths, the level CalculatePatchTessellationLevel returns does
\* not increase with the distance: the patch gets no finer level than it would get
\* at any smaller distance.
C25_LevelMonotoneInDistance ==
    Len(PatchBuffers.PatchInfo) = 1 =>
        LET Patch == PatchBuffers.PatchInfo[1]
            DSq   == DistSquared(Patch.WorldCenter, PatchBuffers.CameraPosition)
        IN  \A Nearer \in LevelCameraHeights :
                Nearer * Nearer <= DSq =>
                    CalculatePatchTessellationLevel(Nearer * Nearer, TessellationSettings)
                        >= Patch.TessellationLevel

\* CalculateGridResolution of the component, which GetTessellationResolution returns
CalculateGridResolution ==
    LET Resolution0 == Clamp(EffectiveTessellationFactor * 4, 4, 1024)
        Resolution  == DivideAndRoundUp(Resolution0, 8) * 8
    IN  <<Resolution, Resolution>>

\* GetVertexCount of the component
GetVertexCount == CalculateGridResolution[1] * CalculateGridResolution[2]

\* GetTriangleCount of the component
GetTriangleCount ==
    (CalculateGridResolution[1] - 1) * (CalculateGridResolution[2] - 1) * 2

\* C26: the resolution, vertex count and triangle count the component reports equal
\* the ResolutionX/Y, VertexCount and IndexCount / 3 of the buffers the pipeline
\* generated for the same effective tessellation factor, for every factor in 1 .. 512.
C26_ReportedStatisticsMatch ==
    (/\ IsValid(GPUBuffers)
     /\ GPUBuffers.Factor = EffectiveTessellationFactor
     /\ EffectiveTessellationFactor \in 1 .. 512) =>
        /\ CalculateGridResolution = <<GPUBuffers.ResolutionX, GPUBuffers.ResolutionY>>
        /\ GetVertexCount = GPUBuffers.VertexCount
        /\ GetTriangleCount = GPUBuffers.IndexCount \div 3

\* C27: in discrete LOD mode, for every LODHysteresis in 0 .. 16, a tick whose selected
\* level equals the current LastAppliedTessFactor does not mark the render state
\* dirty.
C27_UnchangedLevelNotDirty ==
    [][(/\ TickComponent
        /\ TessellationSettings.LODMode = "DistanceBasedDiscrete"
        /\ TessellationSettings.LODHysteresis \in 0 .. 16
        /\ lastTick' = "DistanceBasedDiscrete"
        /\ DiscreteTargetFactor(TessellationSettings) = LastAppliedTessFactor) =>
            bRenderStateDirty' = bRenderStateDirty]_vars


----------------------------------------------------------------------------
(* Specification SpecLive: one component in a continuous LOD mode whose camera and
   settings stay as they start.  The engine ticks the component every frame and
   recreates a dirty render state at the end of the frame, hence the fairness. *)

ContinuousSettingsInputs ==
    {settings \in SettingsInputs : settings.LODMode \in {"DistanceBased", "DensityTexture"}}

InitLive ==
    /\ calcArg = <<0, 0>>
    /\ calcProduct = 0
    /\ calcResult = <<0, 0>>
    /\ GPUBuffers = InvalidBuffers
    /\ PatchBuffers = EmptyPatchBuffers
    /\ \E settings \in ContinuousSettingsInputs : InitComponent(settings)
    /\ MaxScale = ComponentScale
    /\ \E D \in CameraDistances : CameraPosition = <<0, 0, D>>

\* a tick of positive delta time in a world that has a camera
TickPositiveDelta == \E a \in 1 .. InterpDen : TickWithDelta(a, TRUE)

NextLive ==
    \/ TickComponent
    \/ CreateSceneProxy

SpecLive ==
    InitLive /\ [][NextLive]_vars /\ WF_vars(TickPositiveDelta) /\ WF_vars(CreateSceneProxy)

----------------------------------------------------------------------------
(* Specification SpecRegen: a component in patch mode and its scene proxy, while the
   patch counts of the component's TessellationSettings are edited *)

\* the patch counts the settings are switched between: those of the initial settings
\* and a finer grid
EditedPatchCounts == {<<DefaultSettings.PatchCountX, DefaultSettings.PatchCountY>>, <<2, 2>>}

\* an edit of TessellationSettings.PatchCountX and PatchCountY: through
\* UpdateSettings or the details panel, which mark the render state dirty, or by a
\* write to the BlueprintReadWrite property, which does not (bMarksDirty)
SetPatchCounts ==
    \E Counts \in EditedPatchCounts, bMarksDirty \in BOOLEAN :
      LET NewCountX == Counts[1]
          NewCountY == Counts[2]
      IN
        /\ Counts #
              <<TessellationSettings.PatchCountX, TessellationSettings.PatchCountY>>
        /\ TessellationSettings' = [TessellationSettings EXCEPT !.PatchCountX = NewCountX,
                                                                !.PatchCountY = NewCountY]
        /\ bRenderStateDirty' = (bRenderStateDirty \/ bMarksDirty)
        /\ lastTick' = "none"
        /\ UNCHANGED <<CameraPosition, GPUBuffers, patchVars, renderVars>>
        /\ UnchangedByRendering

InitRegen ==
    /\ calcArg = <<0, 0>>
    /\ calcProduct = 0
    /\ calcResult = <<0, 0>>
    /\ GPUBuffers = InvalidBuffers
    /\ PatchBuffers = EmptyPatchBuffers
    /\ InitComponent([DefaultSettings EXCEPT !.LODMode = "DistanceBasedPatches"])
    /\ MaxScale = 1
    /\ CameraPosition = ZeroVector

NextRegen ==
    \/ CreateRenderState
    \/ DestroyRenderState
    \/ SetPatchCounts
    \/ SendRenderDynamicData_Concurrent
    \/ AddPrimitive
    \/ DestroyProxy
    \/ BeginPatchedMesh({NullFrustum})
    \/ GraphBuilderExecute
    \/ FinishRenderCommand

SpecRegen == InitRegen /\ [][NextRegen]_vars

\* the regeneration a tick sent has run to its end in this step
RegenerationCompletes ==
    /\ FinishRenderCommand
    /\ RenderCommand.Name = "SendGPUTessellationDynamicData"

\* a tick sends a regeneration in this step
RegenerationSent ==
    /\ Len(RenderCommands') = Len(RenderCommands) + 1
    /\ RenderCommands'[Len(RenderCommands')].Name = "SendGPUTessellationDynamicData"

\* C29: in patch mode, when the regeneration a tick sent completes, the proxy's patch
\* info, patch buffers and patch vertex factories each hold PatchCountX * PatchCountY
\* entries for the patch counts the component had at that tick; and a tick sends a
\* regeneration only if the patch counts changed or the camera left the movement
\* threshold of the last regeneration position.
C29_RegenerationHoldsNewCounts ==
    /\ [][RegenerationCompletes =>
            LET S == RenderCommand.ComponentSettings
                Count == S.PatchCountX * S.PatchCountY
            IN  /\ Len(PatchBuffers'.PatchInfo) = Count
                /\ Len(PatchBuffers'.PatchBuffers) = Count
                /\ Len(PatchVertexFactories') = Count]_vars
    /\ [][RegenerationSent => PatchUpdateDue(CameraPosition')]_vars


----------------------------------------------------------------------------
(* Claim on the order of the resolutions, under SpecRes *)

\* f <= g for two factors given in halves
FactorLeq(f, g) == 2 * f[1] + f[2] <= 2 * g[1] + g[2]

\* the factors whose product with 4 fits 32 bits, and the resolution of each
FittingFactors == {g \in FactorInputs : Mul4Fits32(RoundToInt(g))}

ResolutionOfFitting(g) == CalculateResolutionOfProduct(RoundToInt(g) * 4)[1]

\* C30: CalculateResolution is monotonically non-decreasing over all factors whose
\* rounded value is a signed 32-bit integer: f1 <= f2 implies R(f1) <= R(f2), also
\* for huge factors (round(f) >= 2^29), which yield the maximum resolution.
C30_ResolutionMonotone ==
    calcResult # <<0, 0>> =>
        /\ \A g \in FittingFactors :
              /\ FactorLeq(g, calcArg) => ResolutionOfFitting(g) <= calcResult[1]
              /\ FactorLeq(calcArg, g) => calcResult[1] <= ResolutionOfFitting(g)
        /\ RoundToInt(calcArg) >= 2^29 => calcResult[1] = MaxResolution

====
